---- MODULE Spec2Model ----
(***************************************************************************)
(* Summary cache (stale-while-revalidate) and incremental sync core of the *)
(* MessagingPlanner desktop application.                                   *)
(*                                                                         *)
(* Time is counted in units of 30 minutes, so that the 2.5 hour cache      *)
(* threshold, the day, the week and the 30 day window are all whole        *)
(* numbers.  One JavaScript macrotask (the code that runs between two      *)
(* awaits on external I/O) is one action.                                  *)
(***************************************************************************)
EXTENDS Integers, Sequences, FiniteSets, TLC

(* ---------------------------------------------------------------------- *)
(* Bounds of the model                                                     *)
(* ---------------------------------------------------------------------- *)
MaxSyncEvents == 3
MaxCacheEvents == 4
MaxItems == 1
MaxCombined == 1
MaxStoreEvents == 3
MaxRowIds == 2
MaxFanEvents == 2
MaxWarmEvents == 3
MaxBgEvents == 2
MaxLifeEvents == 2
MaxReconnectEvents == 3
MaxQueryEvents == 2
MaxSnapEvents == 3
MaxCapEvents == 3
MaxDisconnectEvents == 2
MaxKeyEvents == 2
MaxRetryEvents == 3
MaxExpiryEvents == 3
MaxConnectEvents == 3
MaxTwinEvents == 2

(* ---------------------------------------------------------------------- *)
(* Program constants (time in units of 30 minutes)                         *)
(* ---------------------------------------------------------------------- *)
CACHE_MAX_AGE == 5
DAY == 48
MONTH == 30 * DAY
CHAT_SCAN_LIMIT == 50

StartClock == 3 * MONTH + 20

Sources == {"gmail", "whatsapp", "notion"}
ItemIds == 1..MaxItems

(* cache keys cache.<type>.<summaryType> that the handlers use; the type   *)
(* is an argument of the call, and "other" is any type the handlers'      *)
(* switch statements do not know, which the three refresh functions treat  *)
(* alike                                                                   *)
Keys == [type : Sources, kind : {"today", "week", "actions"}]
          \cup {[type |-> "other", kind |-> "today"],
                [type |-> "combined", kind |-> "daily"]}
NoEntry == [present |-> FALSE, data |-> 0, timestamp |-> 0]
EmptyCache == [key \in Keys |-> NoEntry]

Min(a, b) == IF a < b THEN a ELSE b

(* ---------------------------------------------------------------------- *)
(* JavaScript values that the code mixes: null, booleans and numbers       *)
(* ---------------------------------------------------------------------- *)
JsNull == [type |-> "null", truthy |-> FALSE, num |-> 0]
JsBool(b) == [type |-> "boolean", truthy |-> b, num |-> 0]
JsNum(n) == [type |-> "number", truthy |-> (n # 0), num |-> n]
Truthy(v) == v.truthy

VARIABLES
  clock,        \* wall clock, Date.now()
  events,       \* calls and environment events a behaviour may still take
  connected,    \* per source: the authentication / connection gate
  held,         \* per source: the provider's items, id -> timestamp (0 = none)
  db,           \* Local Store records, per source: id -> stored timestamp
  waChatsDb,    \* Local Store table whatsapp_chats (set of chat ids)
  syncLog,      \* Local Store table sync_log, per source
  syncs,        \* every syncToDatabase call made so far, in call order
  configured,   \* ClaudeService.client is set
  cache,        \* electron-store entries cache.<type>.<summaryType>
  refreshes,    \* every refresh* call made so far, in call order
  requests,     \* every summary request made so far, with its response
  fanouts,      \* every get-all-summaries call made so far
  rows,         \* the rows of each record table, as SQLite holds them
  faults,       \* what is failing now: "store" (electron-store), "db" (SQLite)
  answer,       \* what the last query of the Local Store returned
  wa,           \* WhatsAppService: its client, its flag, its initialize() calls
  sqlite        \* the tables as the better-sqlite3 DatabaseService holds them

vars == <<clock, events, connected, held, db, waChatsDb, syncLog, syncs,
          configured, cache, refreshes, requests, fanouts, rows, faults, answer, wa, sqlite>>

storeVars == <<db, waChatsDb, syncLog, rows>>
cacheVars == <<configured, cache, refreshes, requests, fanouts>>

(* the record tables, each with PRIMARY KEY id *)
Tables == {"whatsapp_messages", "whatsapp_chats", "gmail_messages",
           "notion_pages"}
EmptyTables == [t \in Tables |-> <<>>]

(* Items of S as a sequence, latest timestamp first (ties by id) *)
RECURSIVE SortDesc(_, _)
SortDesc(S, ts) ==
  IF S = {} THEN <<>>
  ELSE LET top == CHOOSE i \in S :
                    \A j \in S : ts[i] > ts[j] \/ (ts[i] = ts[j] /\ i <= j)
       IN <<top>> \o SortDesc(S \ {top}, ts)

(* ---------------------------------------------------------------------- *)
(* Local Store: sync_log                                                   *)
(* ---------------------------------------------------------------------- *)
NoLog == [present |-> FALSE, last_sync_at |-> 0, records_synced |-> 0]

getLastSyncTime(source) ==
  IF syncLog[source].present THEN JsNum(syncLog[source].last_sync_at) ELSE JsNull

updateSyncLog_SkipZero(log, source, recordsSynced, now) ==
  IF recordsSynced = 0 THEN log
  ELSE [log EXCEPT ![source] =
          [present |-> TRUE, last_sync_at |-> now, records_synced |-> recordsSynced]]

updateSyncLog(log, source, recordsSynced, now) ==
  [log EXCEPT ![source] =
     [present |-> TRUE, last_sync_at |-> now, records_synced |-> recordsSynced]]

(* The time that updateSyncLog writes: the clock at the moment it runs.    *)
SyncStamp_CallStart(task) == task.startedAt

SyncStamp(task) == clock

(* ---------------------------------------------------------------------- *)
(* Local Store: record tables (INSERT OR REPLACE by primary key)           *)
(* ---------------------------------------------------------------------- *)
bulkUpsert(table, ids, provider) ==
  [i \in ItemIds |-> IF i \in ids THEN provider[i] ELSE table[i]]

(* ---------------------------------------------------------------------- *)
(* Local Store: the queries by time filter                                 *)
(* ---------------------------------------------------------------------- *)
TimeFilters == {"all", "today", "week", "month"}

NoAnswer == [source |-> "none", timeFilter |-> "all", at |-> 0, rows |-> <<>>]

(* WhatsAppService after its constructor: client null (0), not            *)
(* initializing; no client made, no initialize() call, no timer armed      *)
NoWa == [client |-> 0, isInitializing |-> FALSE, clients |-> <<>>,
         calls |-> <<>>, timers |-> <<>>, reconnects |-> 0]

(* todayStart.setHours(0, 0, 0, 0): midnight of the local day, the local   *)
(* zone taken to be UTC                                                    *)
TodayTimestamp(now) == (now \div DAY) * DAY

(* SELECT * FROM <table> <whereClause> ORDER BY <column> DESC, with the    *)
(* whereClause being 'WHERE <column> >= cutoff' or empty                   *)
SelectRows(table, filtered, cutoff) ==
  SortDesc({i \in ItemIds : table[i] > 0 /\ (filtered => table[i] >= cutoff)},
           table)

getWhatsAppMessages(table, timeFilter, now) ==
  IF timeFilter = "today" THEN SelectRows(table, TRUE, TodayTimestamp(now))
  ELSE IF timeFilter = "week" THEN SelectRows(table, TRUE, now - 7 * DAY)
  ELSE IF timeFilter = "month" THEN SelectRows(table, TRUE, now - 30 * DAY)
  ELSE SelectRows(table, FALSE, 0)

getGmailMessages(table, timeFilter, now) ==
  IF timeFilter = "today" THEN SelectRows(table, TRUE, TodayTimestamp(now))
  ELSE IF timeFilter = "week" THEN SelectRows(table, TRUE, now - 7 * DAY)
  ELSE IF timeFilter = "month" THEN SelectRows(table, TRUE, now - 30 * DAY)
  ELSE SelectRows(table, FALSE, 0)

(* no branch for 'today' *)
getNotionPages(table, timeFilter, now) ==
  IF timeFilter = "week" THEN SelectRows(table, TRUE, now - 7 * DAY)
  ELSE IF timeFilter = "month" THEN SelectRows(table, TRUE, now - 30 * DAY)
  ELSE SelectRows(table, FALSE, 0)

QueryRows(source, timeFilter) ==
  CASE source = "whatsapp" -> getWhatsAppMessages(db[source], timeFilter, clock)
    [] source = "gmail" -> getGmailMessages(db[source], timeFilter, clock)
    [] source = "notion" -> getNotionPages(db[source], timeFilter, clock)

(* ---------------------------------------------------------------------- *)
(* Providers                                                               *)
(* ---------------------------------------------------------------------- *)
(* WhatsApp: messages with an odd id are in chat c1, the others in c2;    *)
(* getChats lists both chats, with or without messages                     *)
ChatOf(i) == IF i % 2 = 1 THEN "c1" ELSE "c2"
WaChatList == <<"c1", "c2">>

(* new Date(t * 1000).toISOString().split('T')[0]: the day that holds t *)
DayStart(t) == (t \div DAY) * DAY

(* ---------------------------------------------------------------------- *)
(* syncToDatabase: the code up to the first await                          *)
(* ---------------------------------------------------------------------- *)
NoResult == [status |-> "pending", error |-> "", newCount |-> 0,
             isIncremental |-> JsNull]

GateError(source) ==
  IF source = "whatsapp" THEN "WhatsApp not connected" ELSE "Not authenticated"

(* Every statement of the database service throws once the database is    *)
(* closed (close() leaves this.db = null) or its file cannot be written.   *)
DbThrows == "db" \in faults

(* The gates of Gmail and Notion read electron-store outside any try      *)
(* block, WhatsApp's gate reads its own isReady flag.                      *)
GateThrows(s) == "store" \in faults /\ s # "whatsapp"

WaSyncFromTime(fullSync, lastSyncTime, monthAgo) ==
  IF ~fullSync /\ Truthy(lastSyncTime) /\ lastSyncTime.num > monthAgo
  THEN lastSyncTime.num ELSE monthAgo

WaIsIncremental(fullSync, lastSyncTime, monthAgo) ==
  JsBool(WaSyncFromTime(fullSync, lastSyncTime, monthAgo) > monthAgo)

(* Gmail query: 'newer_than:30d', or 'after:<day of the watermark>' *)
GmailAfter(fullSync, lastSyncTime, monthAgo) ==
  IF ~fullSync /\ Truthy(lastSyncTime)
  THEN DayStart(lastSyncTime.num) ELSE monthAgo

(* !fullSync && lastSyncTime, for Gmail and Notion *)
AndIsIncremental(fullSync, lastSyncTime) ==
  IF fullSync THEN JsBool(FALSE) ELSE lastSyncTime

NotionCutoffTime(fullSync, lastSyncTime, monthAgo) ==
  IF Truthy(AndIsIncremental(fullSync, lastSyncTime)) /\ Truthy(lastSyncTime)
  THEN lastSyncTime.num ELSE monthAgo

SyncFrom(source, fullSync, lastSyncTime, monthAgo) ==
  CASE source = "whatsapp" -> WaSyncFromTime(fullSync, lastSyncTime, monthAgo)
    [] source = "gmail" -> GmailAfter(fullSync, lastSyncTime, monthAgo)
    [] source = "notion" -> NotionCutoffTime(fullSync, lastSyncTime, monthAgo)

SyncIsIncremental(source, fullSync, lastSyncTime, monthAgo) ==
  IF source = "whatsapp" THEN WaIsIncremental(fullSync, lastSyncTime, monthAgo)
  ELSE AndIsIncremental(fullSync, lastSyncTime)

FirstPc(source) ==
  CASE source = "whatsapp" -> "getChats"
    [] source = "gmail" -> "list"
    [] source = "notion" -> "search"

(* The task record of a syncToDatabase(fullSync) call on `source`, as it   *)
(* stands when the call reaches its first await (or returns at the gate).  *)
NewSync(source, fullSync, background) ==
  LET last == getLastSyncTime(source)
      monthAgo == clock - MONTH
      base == [src |-> source, full |-> fullSync, bg |-> background,
               startedAt |-> clock,
               todo |-> <<>>, batch |-> {}, snap |-> [i \in ItemIds |-> 0],
               newCount |-> 0, total |-> 0,
               fetchError |-> "none", wroteLog |-> FALSE]
      ended == base @@ [pc |-> "done", gated |-> FALSE,
                        lastSyncTime |-> JsNull, monthAgo |-> 0, from |-> 0,
                        isIncremental |-> JsNull, result |-> NoResult]
  IN IF GateThrows(source)
     THEN [ended EXCEPT !.result.status = "rejected",
                        !.result.error = "store failed"]
     ELSE IF ~connected[source]
     THEN [ended EXCEPT !.gated = TRUE, !.result.status = "error",
                        !.result.error = GateError(source)]
     ELSE IF DbThrows
     THEN [ended EXCEPT !.fetchError = "db", !.result.error = "db failed",
                        !.result.status = IF source = "whatsapp"
                                          THEN "rejected" ELSE "error"]
     ELSE base @@ [pc |-> FirstPc(source), gated |-> FALSE,
                   lastSyncTime |-> last, monthAgo |-> monthAgo,
                   from |-> SyncFrom(source, fullSync, last, monthAgo),
                   isIncremental |->
                     SyncIsIncremental(source, fullSync, last, monthAgo),
                   result |-> NoResult]

(* ---------------------------------------------------------------------- *)
(* syncToDatabase: how a call ends                                         *)
(* ---------------------------------------------------------------------- *)
(* What is kept of a call once it has returned: its arguments, its result *)
(* and what it did; its local variables are gone.                          *)
Returned(task, res, kind, wrote) ==
  [task EXCEPT !.pc = "done", !.result = res, !.fetchError = kind,
               !.wroteLog = wrote, !.startedAt = 0, !.lastSyncTime = JsNull,
               !.monthAgo = 0, !.from = 0, !.isIncremental = JsNull,
               !.todo = <<>>, !.batch = {}, !.snap = [i \in ItemIds |-> 0],
               !.newCount = 0, !.total = 0]

(* catch (error) { return { error: error.message } } *)
SyncCatch(task, kind) ==
  Returned(task, [NoResult EXCEPT !.status = "error", !.error = "fetch failed"],
           kind, FALSE)

(* updateSyncLog(source, n); return { success: true, ..., isIncremental } *)
SyncSuccess(task, n, total) ==
  Returned(task, [status |-> "success", error |-> "", newCount |-> n,
                  isIncremental |-> task.isIncremental],
           task.fetchError, TRUE)

(* sync_log after a call has failed: the catch block does not touch it *)
LogOnCatch_Finally(task) == updateSyncLog(syncLog, task.src, task.newCount, clock)

LogOnCatch_Partial(task) ==
  IF task.newCount > 0
  THEN updateSyncLog(syncLog, task.src, task.newCount, clock) ELSE syncLog

LogOnCatch(task) == syncLog

(* the database of the better-sqlite3 DatabaseService after initTables *)
NoSqlite == [rows |-> EmptyTables, sync_log |-> [s \in Sources |-> NoLog]]

Init ==
  /\ clock = StartClock
  /\ events = MaxCacheEvents
  /\ connected = [s \in Sources |-> FALSE]
  /\ held = [s \in Sources |-> [i \in ItemIds |-> 0]]
  /\ db = [s \in Sources |-> [i \in ItemIds |-> 0]]
  /\ waChatsDb = {}
  /\ syncLog = [s \in Sources |-> NoLog]
  /\ syncs = <<>>
  /\ configured \in BOOLEAN
  /\ cache = EmptyCache
  /\ refreshes = <<>>
  /\ requests = <<>>
  /\ fanouts = <<>>
  /\ rows = EmptyTables
  /\ faults = {}
  /\ answer = NoAnswer
  /\ wa = NoWa
  /\ sqlite = NoSqlite

(* ---------------------------------------------------------------------- *)
(* Environment: the clock, the providers' data, the connection state       *)
(* ---------------------------------------------------------------------- *)
(* What bounds a behaviour: the number of calls and environment events   *)
Event == events > 0 /\ events' = events - 1

Tick(jumps) ==
  /\ Event
  /\ \E d \in jumps : clock' = clock + d
  /\ UNCHANGED <<connected, held, storeVars, syncs, cacheVars, faults, answer, wa, sqlite>>

(* A message or mail arrives, a Notion page is created or edited *)
NewData(s, i) ==
  /\ \/ held[s][i] = 0
     \/ s = "notion" /\ held[s][i] < clock
  /\ Event
  /\ held' = [held EXCEPT ![s][i] = clock]
  /\ UNCHANGED <<clock, connected, storeVars, syncs, cacheVars, faults, answer, wa, sqlite>>

(* gmail authenticate / notion authenticate / whatsapp 'ready' *)
Connect(s) ==
  /\ ~connected[s]
  /\ Event
  /\ connected' = [connected EXCEPT ![s] = TRUE]
  /\ UNCHANGED <<clock, held, storeVars, syncs, cacheVars, faults, answer, wa, sqlite>>

(* ---------------------------------------------------------------------- *)
(* syncToDatabase, called directly                                         *)
(* ---------------------------------------------------------------------- *)
CallSync(s, fullSync) ==
  /\ Event
  /\ syncs' = Append(syncs, NewSync(s, fullSync, FALSE))
  /\ UNCHANGED <<clock, connected, held, storeVars, cacheVars, faults, answer, wa, sqlite>>

(* ---------------------------------------------------------------------- *)
(* WhatsApp: client.getChats() answers                                     *)
(* ---------------------------------------------------------------------- *)
(* `ahead` is the number of other chats that the provider lists before    *)
(* c1 and c2 (the list is ordered by latest activity); the model follows   *)
(* the chats c1 and c2 and leaves out the fetches of the others, which     *)
(* store no message of c1 or c2.                                           *)
SyncGetChats(k, ok, ahead) ==
  LET t == syncs[k]
      room == IF ahead < CHAT_SCAN_LIMIT THEN CHAT_SCAN_LIMIT - ahead ELSE 0
      chats == SubSeq(WaChatList, 1, Min(Len(WaChatList), room))
  IN /\ t.pc = "getChats"
     /\ IF ok /\ DbThrows
        THEN /\ syncs' = [syncs EXCEPT ![k] = SyncCatch(t, "db")]
             /\ syncLog' = LogOnCatch(t)
             /\ UNCHANGED waChatsDb
        ELSE IF ~ok
        THEN /\ syncs' = [syncs EXCEPT ![k] = SyncCatch(t, "list")]
             /\ syncLog' = LogOnCatch(t)
             /\ UNCHANGED waChatsDb
        ELSE IF chats = <<>>
        THEN /\ syncs' = [syncs EXCEPT ![k] = SyncSuccess(t, 0, 0)]
             /\ syncLog' = updateSyncLog(syncLog, "whatsapp", 0, SyncStamp(t))
             /\ UNCHANGED waChatsDb
        ELSE /\ syncs' = [syncs EXCEPT ![k] =
                            [t EXCEPT !.pc = "fetchMessages", !.todo = chats]]
             /\ waChatsDb' = waChatsDb \cup {Head(chats)}
             /\ UNCHANGED syncLog
     /\ UNCHANGED <<clock, events, connected, held, db, cacheVars, faults, rows, answer, wa, sqlite>>

(* WhatsApp: chat.fetchMessages() answers for the chat at the head of todo *)
SyncFetchMessages(k, ok) ==
  LET t == syncs[k]
      chat == Head(t.todo)
      rest == Tail(t.todo)
      messages == {i \in ItemIds : held["whatsapp"][i] > 0 /\ ChatOf(i) = chat}
      newMsgs == {i \in messages : held["whatsapp"][i] > t.from}
      newMessages == t.newCount + Cardinality(newMsgs)
      totalMessages == t.total + Cardinality(messages)
  IN /\ t.pc = "fetchMessages"
     /\ IF ok /\ DbThrows
        THEN /\ syncs' = [syncs EXCEPT ![k] = SyncCatch(t, "db")]
             /\ syncLog' = LogOnCatch(t)
             /\ UNCHANGED <<db, waChatsDb>>
        ELSE IF ~ok
        THEN /\ syncs' = [syncs EXCEPT ![k] = SyncCatch(t, "item")]
             /\ syncLog' = LogOnCatch(t)
             /\ UNCHANGED <<db, waChatsDb>>
        ELSE /\ db' = [db EXCEPT !["whatsapp"] =
                         bulkUpsert(@, newMsgs, held["whatsapp"])]
             /\ IF rest = <<>>
                THEN /\ syncs' = [syncs EXCEPT ![k] =
                                    SyncSuccess(t, newMessages, totalMessages)]
                     /\ syncLog' = updateSyncLog(syncLog, "whatsapp",
                                                 newMessages, SyncStamp(t))
                     /\ UNCHANGED waChatsDb
                ELSE /\ syncs' = [syncs EXCEPT ![k] =
                                    [t EXCEPT !.todo = rest,
                                              !.newCount = newMessages,
                                              !.total = totalMessages]]
                     /\ waChatsDb' = waChatsDb \cup {Head(rest)}
                     /\ UNCHANGED syncLog
     /\ UNCHANGED <<clock, events, connected, held, cacheVars, faults, rows, answer, wa, sqlite>>

(* ---------------------------------------------------------------------- *)
(* Gmail: users.messages.list answers, then the users.messages.get calls   *)
(* ---------------------------------------------------------------------- *)
(* 'after:<day>' includes the whole day; 'newer_than:30d' is exclusive *)
GmailMatches(t, ts) ==
  IF Truthy(t.isIncremental) THEN ts >= t.from ELSE ts > t.from

SyncGmailList(k, ok) ==
  LET t == syncs[k]
      messages == {i \in ItemIds :
                     held["gmail"][i] > 0 /\ GmailMatches(t, held["gmail"][i])}
  IN /\ t.pc = "list"
     /\ IF ~ok
        THEN /\ syncs' = [syncs EXCEPT ![k] = SyncCatch(t, "list")]
             /\ syncLog' = LogOnCatch(t)
        ELSE IF messages = {} /\ DbThrows
        THEN /\ syncs' = [syncs EXCEPT ![k] = SyncCatch(t, "db")]
             /\ syncLog' = LogOnCatch(t)
        ELSE IF messages = {}
        THEN /\ syncs' = [syncs EXCEPT ![k] = SyncSuccess(t, 0, 0)]
             /\ syncLog' = updateSyncLog(syncLog, "gmail", 0, SyncStamp(t))
        ELSE /\ syncs' = [syncs EXCEPT ![k] =
                            [t EXCEPT !.pc = "get", !.batch = messages]]
             /\ UNCHANGED syncLog
     /\ UNCHANGED <<clock, events, connected, held, db, waChatsDb, cacheVars, faults, rows, answer, wa, sqlite>>

(* the loop of users.messages.get calls: nothing is stored before its end *)
SyncGmailGet(k, ok) ==
  LET t == syncs[k]
      newEmails == Cardinality(t.batch)
  IN /\ t.pc = "get"
     /\ IF ok /\ DbThrows
        THEN /\ syncs' = [syncs EXCEPT ![k] = SyncCatch(t, "db")]
             /\ syncLog' = LogOnCatch(t)
             /\ UNCHANGED db
        ELSE IF ~ok
        THEN /\ syncs' = [syncs EXCEPT ![k] = SyncCatch(t, "item")]
             /\ syncLog' = LogOnCatch(t)
             /\ UNCHANGED db
        ELSE /\ db' = [db EXCEPT !["gmail"] = bulkUpsert(@, t.batch, held["gmail"])]
             /\ syncs' = [syncs EXCEPT ![k] = SyncSuccess(t, newEmails, newEmails)]
             /\ syncLog' = updateSyncLog(syncLog, "gmail", newEmails, SyncStamp(t))
     /\ UNCHANGED <<clock, events, connected, held, waChatsDb, cacheVars, faults, rows, answer, wa, sqlite>>

(* ---------------------------------------------------------------------- *)
(* Notion: client.search answers, then blocks.children.list per page       *)
(* ---------------------------------------------------------------------- *)
(* if (page.last_edited_time < cutoffTime && isIncremental) continue *)
NotionSkips(t, ts) == ts < t.from /\ Truthy(t.isIncremental)

SyncNotionSearch(k, ok) ==
  LET t == syncs[k]
      results == {i \in ItemIds : held["notion"][i] > 0}
      kept == {i \in results : ~NotionSkips(t, held["notion"][i])}
  IN /\ t.pc = "search"
     /\ IF ~ok
        THEN /\ syncs' = [syncs EXCEPT ![k] = SyncCatch(t, "list")]
             /\ syncLog' = LogOnCatch(t)
        ELSE IF kept = {} /\ DbThrows
        THEN /\ syncs' = [syncs EXCEPT ![k] = SyncCatch(t, "db")]
             /\ syncLog' = LogOnCatch(t)
        ELSE IF kept = {}
        THEN /\ syncs' = [syncs EXCEPT ![k] =
                            SyncSuccess(t, 0, Cardinality(results))]
             /\ syncLog' = updateSyncLog(syncLog, "notion", 0, SyncStamp(t))
        ELSE /\ syncs' = [syncs EXCEPT ![k] =
                            [t EXCEPT !.pc = "blocks",
                                      !.todo = SortDesc(kept, held["notion"]),
                                      !.snap = held["notion"],
                                      !.total = Cardinality(results)]]
             /\ UNCHANGED syncLog
     /\ UNCHANGED <<clock, events, connected, held, db, waChatsDb, cacheVars, faults, rows, answer, wa, sqlite>>

(* blocks.children.list answers for the page at the head of todo; its      *)
(* failure is swallowed ("Some pages may not be accessible")               *)
SyncNotionBlocks(k, ok) ==
  LET t == syncs[k]
      page == Head(t.todo)
      rest == Tail(t.todo)
      pagesToStore == t.batch \cup {page}
      seen == IF ok THEN t.fetchError ELSE "blocks"
  IN /\ t.pc = "blocks"
     /\ IF rest = <<>> /\ DbThrows
        THEN /\ syncs' = [syncs EXCEPT ![k] = SyncCatch(t, "db")]
             /\ syncLog' = LogOnCatch(t)
             /\ UNCHANGED db
        ELSE IF rest = <<>>
        THEN /\ db' = [db EXCEPT !["notion"] = bulkUpsert(@, pagesToStore, t.snap)]
             /\ syncs' = [syncs EXCEPT ![k] =
                            [SyncSuccess(t, Cardinality(pagesToStore), t.total)
                               EXCEPT !.fetchError = seen]]
             /\ syncLog' = updateSyncLog(syncLog, "notion",
                                         Cardinality(pagesToStore), SyncStamp(t))
        ELSE /\ syncs' = [syncs EXCEPT ![k] =
                            [t EXCEPT !.todo = rest, !.batch = pagesToStore,
                                      !.fetchError = seen]]
             /\ UNCHANGED <<db, syncLog>>
     /\ UNCHANGED <<clock, events, connected, held, waChatsDb, cacheVars, faults, rows, answer, wa, sqlite>>

SyncStep(k) ==
  \E ok \in BOOLEAN :
    \/ SyncGetChats(k, ok, 0)
    \/ SyncFetchMessages(k, ok)
    \/ SyncGmailList(k, ok)
    \/ SyncGmailGet(k, ok)
    \/ SyncNotionSearch(k, ok)
    \/ SyncNotionBlocks(k, ok)

(* ---------------------------------------------------------------------- *)
(* WhatsApp syncs of an account with more chats than a sync scans          *)
(* ---------------------------------------------------------------------- *)
(* other chats listed before c1: none, so many that c1 is the last chat    *)
(* scanned, so many that c1 is not scanned                                 *)
CapAhead == {0, CHAT_SCAN_LIMIT - 1, CHAT_SCAN_LIMIT}

CapStep(k) ==
  \E ok \in BOOLEAN :
    \/ \E ahead \in CapAhead : SyncGetChats(k, ok, ahead)
    \/ SyncFetchMessages(k, ok)

(* WhatsApp is connected and holds, in c1, a message of half an hour ago;  *)
(* nothing has been synced yet.                                            *)
CapInit ==
  /\ clock = StartClock
  /\ events = MaxCapEvents
  /\ connected = [s \in Sources |-> s = "whatsapp"]
  /\ held = [s \in Sources |->
               [i \in ItemIds |->
                  IF s = "whatsapp" /\ i = 1 THEN StartClock - 1 ELSE 0]]
  /\ db = [s \in Sources |-> [i \in ItemIds |-> 0]]
  /\ waChatsDb = {}
  /\ syncLog = [s \in Sources |-> NoLog]
  /\ syncs = <<>>
  /\ configured = FALSE
  /\ cache = EmptyCache
  /\ refreshes = <<>>
  /\ requests = <<>>
  /\ fanouts = <<>>
  /\ rows = EmptyTables
  /\ faults = {}
  /\ answer = NoAnswer
  /\ wa = NoWa
  /\ sqlite = NoSqlite

CapJumps == {1}

CapNext ==
  \/ Tick(CapJumps)
  \/ \E fullSync \in BOOLEAN : CallSync("whatsapp", fullSync)
  \/ \E k \in DOMAIN syncs : CapStep(k)

CapSpec == CapInit /\ [][CapNext]_vars

(* ---------------------------------------------------------------------- *)
(* A WhatsApp sync that fails at its second chat, and the next sync        *)
(* ---------------------------------------------------------------------- *)
(* the provider answers getChats, and fetchMessages for the first chat of  *)
(* the list; fetchMessages for a later chat answers or fails               *)
RetryStep(k) ==
  \/ SyncGetChats(k, TRUE, 0)
  \/ \E ok \in BOOLEAN :
       /\ ok \/ Len(syncs[k].todo) < Len(WaChatList)
       /\ SyncFetchMessages(k, ok)

(* a message of half an hour ago and a message that leaves the window of   *)
(* 30 days with the next half hour                                         *)
RetryStamps == {StartClock - 1, StartClock - MONTH + 1}

(* WhatsApp is connected, nothing has been synced yet; the provider's      *)
(* messages stay as they are, and a sync is called when the one before it  *)
(* has returned                                                            *)
RetryInit ==
  /\ clock = StartClock
  /\ events = MaxRetryEvents
  /\ connected = [s \in Sources |-> s = "whatsapp"]
  /\ \E stamps \in [ItemIds -> RetryStamps \cup {0}] :
        held = [s \in Sources |->
                  [i \in ItemIds |-> IF s = "whatsapp" THEN stamps[i] ELSE 0]]
  /\ db = [s \in Sources |-> [i \in ItemIds |-> 0]]
  /\ waChatsDb = {}
  /\ syncLog = [s \in Sources |-> NoLog]
  /\ syncs = <<>>
  /\ configured = FALSE
  /\ cache = EmptyCache
  /\ refreshes = <<>>
  /\ requests = <<>>
  /\ fanouts = <<>>
  /\ rows = EmptyTables
  /\ faults = {}
  /\ answer = NoAnswer
  /\ wa = NoWa
  /\ sqlite = NoSqlite

RetryJumps == {1}

RetryNext ==
  \/ Tick(RetryJumps)
  \/ \E fullSync \in BOOLEAN :
       /\ \A k \in DOMAIN syncs : syncs[k].pc = "done"
       /\ CallSync("whatsapp", fullSync)
  \/ \E k \in DOMAIN syncs : RetryStep(k)

RetrySpec == RetryInit /\ [][RetryNext]_vars

(* ---------------------------------------------------------------------- *)
(* The sync engine on its own: syncToDatabase called with either mode      *)
(* ---------------------------------------------------------------------- *)
(* a short step inside the 30 day window and a long one beyond it *)
SyncJumps == {1, 45 * DAY}

SyncInit ==
  /\ clock = StartClock
  /\ events = MaxSyncEvents
  /\ connected = [s \in Sources |-> TRUE]
  /\ \E s \in Sources, old \in SUBSET ItemIds :
        held = [x \in Sources |->
                  [i \in ItemIds |->
                     IF x = s /\ i \in old THEN StartClock - 1 ELSE 0]]
  /\ db = [s \in Sources |-> [i \in ItemIds |-> 0]]
  /\ waChatsDb = {}
  /\ syncLog = [s \in Sources |-> NoLog]
  /\ syncs = <<>>
  /\ configured = FALSE
  /\ cache = EmptyCache
  /\ refreshes = <<>>
  /\ requests = <<>>
  /\ fanouts = <<>>
  /\ rows = EmptyTables
  /\ faults = {}
  /\ answer = NoAnswer
  /\ wa = NoWa
  /\ sqlite = NoSqlite

(* The three sources share no table, no sync_log row and no task, so this *)
(* specification exercises one source per behaviour, whichever it is.     *)
Untouched(o) ==
  /\ \A i \in ItemIds : held[o][i] = 0
  /\ \A k \in 1..Len(syncs) : syncs[k].src # o

Alone(s) == \A o \in Sources \ {s} : Untouched(o)

SyncNext ==
  \/ Tick(SyncJumps)
  \/ \E s \in Sources, i \in ItemIds : Alone(s) /\ NewData(s, i)
  \/ \E s \in Sources, fullSync \in BOOLEAN : Alone(s) /\ CallSync(s, fullSync)
  \/ \E k \in 1..Len(syncs) : SyncStep(k)

SyncSpec == SyncInit /\ [][SyncNext]_vars

(* ====================================================================== *)
(* Summary cache and the summary handlers (main.js)                        *)
(* ====================================================================== *)
IsStale_AtThreshold(age) == age >= CACHE_MAX_AGE

(* isStale: age > CACHE_MAX_AGE *)
IsStale(age) == age > CACHE_MAX_AGE

(* the age taken from the entry towards the clock *)
getCachedSummary_Reversed(key) ==
  IF ~cache[key].present
  THEN [present |-> FALSE, data |-> 0, timestamp |-> 0, age |-> 0,
        isStale |-> FALSE]
  ELSE [present |-> TRUE, data |-> cache[key].data,
        timestamp |-> cache[key].timestamp,
        age |-> cache[key].timestamp - clock,
        isStale |-> IsStale(cache[key].timestamp - clock)]

getCachedSummary(key) ==
  IF ~cache[key].present
  THEN [present |-> FALSE, data |-> 0, timestamp |-> 0, age |-> 0,
        isStale |-> FALSE]
  ELSE [present |-> TRUE, data |-> cache[key].data,
        timestamp |-> cache[key].timestamp,
        age |-> clock - cache[key].timestamp,
        isStale |-> IsStale(clock - cache[key].timestamp)]

(* an overwrite that keeps the timestamp of the entry it replaces *)
setCachedSummary_KeepStamp(c, key, data) ==
  [c EXCEPT ![key] = [present |-> TRUE, data |-> data,
                      timestamp |-> IF c[key].present THEN c[key].timestamp
                                    ELSE clock]]

setCachedSummary(c, key, data) ==
  [c EXCEPT ![key] = [present |-> TRUE, data |-> data, timestamp |-> clock]]

(* The three exits of a summary handler, once the API key gate is passed *)
HandlerBranch_NoStale(cached, forceRefresh) ==
  IF cached.present /\ ~cached.isStale /\ ~forceRefresh THEN "fresh"
  ELSE "refresh"

HandlerBranch_IgnoreForce(cached, forceRefresh) ==
  IF cached.present /\ ~cached.isStale THEN "fresh"
  ELSE IF cached.present THEN "stale"
  ELSE "refresh"

(* a handler that waits for a refresh when one is already in flight *)
HandlerBranch_JoinInFlight(cached, forceRefresh) ==
  IF \E r \in DOMAIN refreshes : refreshes[r].pc # "done" THEN "refresh"
  ELSE IF cached.present /\ ~cached.isStale /\ ~forceRefresh THEN "fresh"
  ELSE IF cached.present /\ ~forceRefresh THEN "stale"
  ELSE "refresh"

HandlerBranch(cached, forceRefresh) ==
  IF cached.present /\ ~cached.isStale /\ ~forceRefresh THEN "fresh"
  ELSE IF cached.present /\ ~forceRefresh THEN "stale"
  ELSE "refresh"

(* responses of a handler *)
Pending == [status |-> "pending", summary |-> 0, fromCache |-> FALSE,
            isStale |-> FALSE, cacheAge |-> 0, error |-> ""]
ErrorResponse(msg) == [Pending EXCEPT !.status = "done", !.error = msg]
CachedResponse(cached, stale) ==
  [status |-> "done", summary |-> cached.data, fromCache |-> TRUE,
   isStale |-> stale, cacheAge |-> cached.age, error |-> ""]
FreshResponse(summary) ==
  [status |-> "done", summary |-> summary, fromCache |-> FALSE,
   isStale |-> FALSE, cacheAge |-> 0, error |-> ""]

(* result of a refresh* call *)
NoRefreshResult == [status |-> "pending", summary |-> 0, error |-> ""]
RefreshError(msg) == [status |-> "error", summary |-> 0, error |-> msg]
RefreshOk(summary) == [status |-> "success", summary |-> summary, error |-> ""]

ResponseOf(result) ==
  IF result.status = "success" THEN FreshResponse(result.summary)
  ELSE ErrorResponse(result.error)

(* result of a provider's getSummary *)
NotCalled == [state |-> "none", error |-> "", authenticated |-> FALSE]
Fetching == [state |-> "pending", error |-> "", authenticated |-> FALSE]
GateResult(s) == [state |-> "done", error |-> GateError(s), authenticated |-> FALSE]
Rejected(msg) == [state |-> "rejected", error |-> msg, authenticated |-> FALSE]

(* sources whose getSummary a refresh of `type` calls *)
Asked(type) == IF type = "combined" THEN Sources ELSE {type} \cap Sources

(* a getSummary that awaits its syncToDatabase call *)
CallGetSummary_AwaitsSync(type) ==
  [s \in Sources |->
     IF s \notin Asked(type) THEN NotCalled
     ELSE IF GateThrows(s) THEN Rejected("store failed")
     ELSE IF ~connected[s] THEN GateResult(s)
     ELSE IF DbThrows /\ s = "whatsapp" THEN Rejected("db failed")
     ELSE Fetching]

(* provider.getSummary() up to its first await, for each source asked *)
CallGetSummary(type) ==
  [s \in Sources |->
     IF s \notin Asked(type) THEN NotCalled
     ELSE IF GateThrows(s) THEN Rejected("store failed")
     ELSE IF ~connected[s] THEN GateResult(s)
     ELSE Fetching]

(* the unawaited this.syncToDatabase() calls that these getSummary make *)
RECURSIVE BackgroundSyncs(_)
BackgroundSyncs(S) ==
  IF S = {} THEN <<>>
  ELSE LET s == CHOOSE x \in S : TRUE
       IN <<NewSync(s, FALSE, TRUE)>> \o BackgroundSyncs(S \ {s})

(* a getSummary that launches its sync before it looks at the gate *)
Launched_BeforeGate(type) == Asked(type)

Launched(type) == {s \in Asked(type) : connected[s] /\ ~GateThrows(s)}

(* what a refresh has of a provider before that provider's getSummary has  *)
(* answered                                                                *)
NothingSeen == [s \in Sources |-> [i \in ItemIds |-> 0]]

(* What is kept of a refresh* call once it has returned *)
Finished(task, res) ==
  [task EXCEPT !.pc = "done", !.result = res, !.input = {},
               !.gs = [s \in Sources |-> NotCalled]]

(* a combined refresh that gives up when no source has answered *)
AfterProviders_NeedsSource(task) ==
  IF \E s \in Sources : task.gs[s].state = "pending" THEN task
  ELSE IF task.key.type = "combined"
  THEN IF \A s \in Sources : ~(task.gs[s].state = "done" /\ task.gs[s].authenticated)
       THEN Finished(task, RefreshError("Not authenticated"))
       ELSE [task EXCEPT !.pc = "summarizer",
                         !.input = {s \in Sources : /\ task.gs[s].state = "done"
                                                     /\ task.gs[s].authenticated}]
  ELSE IF task.key.type \notin Sources
  THEN Finished(task, RefreshError("Invalid type"))
  ELSE LET data == task.gs[task.key.type]
       IN IF data.error # "" \/ ~data.authenticated
          THEN Finished(task, RefreshError(IF data.error # "" THEN data.error
                                           ELSE "Not authenticated"))
          ELSE [task EXCEPT !.pc = "summarizer", !.input = {task.key.type}]

(* a per-source refresh that tests what the combined refresh tests *)
AfterProviders_AuthOnly(task) ==
  IF \E s \in Sources : task.gs[s].state = "pending" THEN task
  ELSE IF task.key.type = "combined"
  THEN [task EXCEPT !.pc = "summarizer",
                    !.input = {s \in Sources : /\ task.gs[s].state = "done"
                                                /\ task.gs[s].authenticated}]
  ELSE IF task.key.type \notin Sources
  THEN Finished(task, RefreshError("Invalid type"))
  ELSE LET data == task.gs[task.key.type]
       IN IF ~data.authenticated
          THEN Finished(task, RefreshError(IF data.error # "" THEN data.error
                                           ELSE "Not authenticated"))
          ELSE [task EXCEPT !.pc = "summarizer", !.input = {task.key.type}]

(* The rest of refresh* once every getSummary it awaits has settled: the  *)
(* error return, or the call of the summarizer.                            *)
AfterProviders(task) ==
  IF \E s \in Sources : task.gs[s].state = "pending" THEN task
  ELSE IF task.key.type = "combined"
  THEN [task EXCEPT !.pc = "summarizer",
                    !.input = {s \in Sources : /\ task.gs[s].state = "done"
                                                /\ task.gs[s].authenticated}]
  ELSE IF task.key.type \notin Sources
  THEN Finished(task, RefreshError("Invalid type"))
  ELSE LET data == task.gs[task.key.type]
       IN IF data.error # "" \/ ~data.authenticated
          THEN Finished(task, RefreshError(IF data.error # "" THEN data.error
                                           ELSE "Not authenticated"))
          ELSE [task EXCEPT !.pc = "summarizer", !.input = {task.key.type}]

NewRefresh(key, mode, req) ==
  AfterProviders([key |-> key, mode |-> mode, req |-> req, pc |-> "provider",
                  gs |-> CallGetSummary(key.type), input |-> {},
                  seen |-> NothingSeen, result |-> NoRefreshResult])

(* What the request that started a refresh sees of its end: the awaiting  *)
(* handler returns the result, a background refresh only logs it.          *)
Deliver_Surface(reqs, task) ==
  IF task.pc # "done" THEN reqs
  ELSE IF task.mode = "awaited" \/ task.result.status = "error"
  THEN [reqs EXCEPT ![task.req].response = ResponseOf(task.result)]
  ELSE reqs

(* a refresh that hands its summary to the request that started it even    *)
(* when that request has been answered                                     *)
Deliver_Push(reqs, task) ==
  IF task.pc = "done" /\ (task.mode = "awaited" \/ task.result.status = "success")
  THEN [reqs EXCEPT ![task.req].response = ResponseOf(task.result)]
  ELSE reqs

Deliver(reqs, task) ==
  IF task.pc = "done" /\ task.mode = "awaited"
  THEN [reqs EXCEPT ![task.req].response = ResponseOf(task.result)]
  ELSE reqs

(* claude-set-api-key *)
SetApiKey ==
  /\ ~configured
  /\ configured' = TRUE
  /\ UNCHANGED <<clock, events, connected, held, storeVars, syncs, cache, refreshes, requests, faults, fanouts, answer, wa, sqlite>>

(* a gate that is always open *)
isConfigured_Always == TRUE

(* ClaudeService.isConfigured: !!this.client *)
isConfigured == configured

(* get-today-summary, get-week-summary, get-action-items (type, kind) and *)
(* get-combined-summary (combined, daily)                                  *)
Request(key, forceRefresh) ==
  LET cached == getCachedSummary(key)
      branch == HandlerBranch(cached, forceRefresh)
      q == Len(requests) + 1
      mode == IF branch = "stale" THEN "bg" ELSE "awaited"
      task == NewRefresh(key, mode, q)
      first == IF branch = "stale" THEN CachedResponse(cached, TRUE) ELSE Pending
      asked == [key |-> key, force |-> forceRefresh, response |-> first]
  IN /\ Event
     /\ key.type = "combined" => Len(requests) < MaxCombined
     /\ IF ~isConfigured
        THEN /\ requests' = Append(requests,
                  [key |-> key, force |-> forceRefresh,
                   response |-> ErrorResponse("Claude API key not configured")])
             /\ UNCHANGED <<refreshes, syncs>>
        ELSE IF branch = "fresh"
        THEN /\ requests' = Append(requests,
                  [key |-> key, force |-> forceRefresh,
                   response |-> CachedResponse(cached, FALSE)])
             /\ UNCHANGED <<refreshes, syncs>>
        ELSE /\ refreshes' = Append(refreshes, task)
             /\ syncs' = syncs \o BackgroundSyncs(Launched(key.type))
             /\ requests' = Deliver(Append(requests, asked), task)
     /\ UNCHANGED <<clock, connected, held, storeVars, configured, cache, faults, fanouts, answer, wa, sqlite>>

(* ask-question (type, "question") and get-topic-details (source,         *)
(* "details"): the same gate, the provider's getSummary and a call of the  *)
(* summarizer; no cache is read or written                                 *)
UncachedKinds == {"question", "details"}

Ask(type, handler) ==
  LET key == [type |-> type, kind |-> handler]
      q == Len(requests) + 1
      task == NewRefresh(key, "awaited", q)
      asked == [key |-> key, force |-> FALSE, response |-> Pending]
  IN /\ Event
     /\ IF ~isConfigured
        THEN /\ requests' = Append(requests,
                  [key |-> key, force |-> FALSE,
                   response |-> ErrorResponse("Claude API key not configured")])
             /\ UNCHANGED <<refreshes, syncs>>
        ELSE /\ refreshes' = Append(refreshes, task)
             /\ syncs' = syncs \o BackgroundSyncs(Launched(type))
             /\ requests' = Deliver(Append(requests, asked), task)
     /\ UNCHANGED <<clock, connected, held, storeVars, configured, cache, faults, fanouts, answer, wa, sqlite>>

(* What a provider's getSummary settles with: its view, an error, or the *)
(* provider's unauthorized error (Gmail 401, Notion 'unauthorized'),      *)
(* whose handling writes electron-store inside the catch block.            *)
GetSummaryResult(s, outcome) ==
  CASE outcome = "ok" ->
         [state |-> "done", error |-> "", authenticated |-> TRUE]
    [] outcome = "error" ->
         [state |-> "done", error |-> "provider failed",
          authenticated |-> IF s = "whatsapp" THEN connected[s] ELSE TRUE]
    [] outcome = "expired" ->
         IF "store" \in faults THEN Rejected("store failed")
         ELSE [state |-> "done", authenticated |-> FALSE,
               error |-> "Session expired. Please re-authenticate."]

(* a catch block that reports the expiry and leaves the flag alone *)
FlagAfter_Keep(s, outcome) == connected

(* the authenticated flag in electron-store after that *)
FlagAfter(s, outcome) ==
  IF outcome = "expired" /\ "store" \notin faults
  THEN [connected EXCEPT ![s] = FALSE] ELSE connected

GetSummaryAnswers(r, s, outcome) ==
  LET t == refreshes[r]
      view == IF outcome = "ok" THEN held[s] ELSE t.seen[s]
      next == AfterProviders([t EXCEPT !.gs[s] = GetSummaryResult(s, outcome),
                                       !.seen[s] = view])
  IN /\ t.pc = "provider"
     /\ t.gs[s].state = "pending"
     /\ outcome = "expired" => s # "whatsapp"
     /\ connected' = FlagAfter(s, outcome)
     /\ refreshes' = [refreshes EXCEPT ![r] = next]
     /\ requests' = Deliver(requests, next)
     /\ UNCHANGED <<clock, events, held, storeVars, syncs, configured, cache, faults, fanouts, answer, wa, sqlite>>

(* the items of a provider's view *)
Newer(a, b) == \A s \in Sources, i \in ItemIds : a[s][i] >= b[s][i]

(* a refresh that leaves alone an entry built from a later view than its   *)
(* own                                                                     *)
SummarizerAnswers_KeepNewer(r, ok) ==
  LET t == refreshes[r]
      summary == r
      next == Finished(t, IF ok THEN RefreshOk(summary)
                             ELSE RefreshError("summarizer failed"))
      old == cache[t.key]
      behind == /\ old.present /\ old.data \in DOMAIN refreshes
                /\ ~Newer(t.seen, refreshes[old.data].seen)
  IN /\ t.pc = "summarizer"
     /\ cache' = IF ok /\ ~behind THEN setCachedSummary(cache, t.key, summary)
                 ELSE cache
     /\ refreshes' = [refreshes EXCEPT ![r] = next]
     /\ requests' = Deliver(requests, next)
     /\ UNCHANGED <<clock, events, connected, held, storeVars, syncs, configured, faults, fanouts, answer, wa, sqlite>>

(* a refresh that stores what it has before it looks at the outcome *)
SummarizerAnswers_CacheAnyway(r, ok) ==
  LET t == refreshes[r]
      summary == r
      next == Finished(t, IF ok THEN RefreshOk(summary)
                             ELSE RefreshError("summarizer failed"))
  IN /\ t.pc = "summarizer"
     /\ cache' = setCachedSummary(cache, t.key, summary)
     /\ refreshes' = [refreshes EXCEPT ![r] = next]
     /\ requests' = Deliver(requests, next)
     /\ UNCHANGED <<clock, events, connected, held, storeVars, syncs, configured, faults, fanouts, answer, wa, sqlite>>

(* The summarizer's API call settles; on success the refresh writes the   *)
(* cache and returns the summary.                                          *)
SummarizerAnswers(r, ok) ==
  LET t == refreshes[r]
      summary == r
      next == Finished(t, IF ok THEN RefreshOk(summary)
                             ELSE RefreshError("summarizer failed"))
  IN /\ t.pc = "summarizer"
     /\ cache' = IF ok /\ t.key \in Keys
                 THEN setCachedSummary(cache, t.key, summary) ELSE cache
     /\ refreshes' = [refreshes EXCEPT ![r] = next]
     /\ requests' = Deliver(requests, next)
     /\ UNCHANGED <<clock, events, connected, held, storeVars, syncs, configured, faults, fanouts, answer, wa, sqlite>>

(* a step that leaves an entry just fresh and one that makes it stale *)
CacheJumps == {CACHE_MAX_AGE, CACHE_MAX_AGE + 1}

(* Cache keys share no entry and a source that no refresh asks plays no   *)
(* part, so this specification follows one key per behaviour, whichever   *)
(* it is, and leaves the sources outside that key disconnected.  The      *)
(* background syncs that getSummary launches are recorded here; how they  *)
(* run is the subject of SyncSpec.                                         *)
OneKey(key) ==
  /\ \A q \in 1..Len(requests) : requests[q].key = key
  /\ \A o \in Sources \ Asked(key.type) : ~connected[o]

InPlay(s) == \A q \in 1..Len(requests) : s \in Asked(requests[q].key.type)

Next ==
  \/ Tick(CacheJumps)
  \/ SetApiKey
  \/ \E s \in Sources : InPlay(s) /\ Connect(s)
  \/ \E key \in Keys, forceRefresh \in BOOLEAN :
        OneKey(key) /\ Request(key, forceRefresh)
  \/ \E r \in 1..Len(refreshes), s \in Sources,
        outcome \in {"ok", "error", "expired"} : GetSummaryAnswers(r, s, outcome)
  \/ \E r \in 1..Len(refreshes), ok \in BOOLEAN : SummarizerAnswers(r, ok)

Spec == Init /\ [][Next]_vars

(* ---------------------------------------------------------------------- *)
(* The handlers on a cache that an earlier run has filled                  *)
(* ---------------------------------------------------------------------- *)
(* electron-store outlasts the process: the API key, the authenticated    *)
(* flags and the cache entries are those an earlier run left.  The entry   *)
(* is one step of the clock away from stale, or already stale.             *)
WarmAges == {CACHE_MAX_AGE, CACHE_MAX_AGE + 1}

StoredState(budget) ==
  /\ clock = StartClock
  /\ events = budget
  /\ held = [s \in Sources |-> [i \in ItemIds |-> 0]]
  /\ db = [s \in Sources |-> [i \in ItemIds |-> 0]]
  /\ waChatsDb = {}
  /\ syncLog = [s \in Sources |-> NoLog]
  /\ syncs = <<>>
  /\ refreshes = <<>>
  /\ requests = <<>>
  /\ fanouts = <<>>
  /\ rows = EmptyTables
  /\ faults = {}
  /\ answer = NoAnswer
  /\ wa = NoWa
  /\ sqlite = NoSqlite
  /\ \E key \in Keys, age \in WarmAges :
       /\ key.type # "other"
       /\ cache = [EmptyCache EXCEPT ![key] =
                     [present |-> TRUE, data |-> 0, timestamp |-> StartClock - age]]
       /\ connected \in [Sources -> BOOLEAN]
       /\ \A o \in Sources \ Asked(key.type) : ~connected[o]

WarmStart(budget) == StoredState(budget) /\ configured = TRUE

WarmInit == WarmStart(MaxWarmEvents)

WarmJumps == {1}

WarmNext ==
  \/ Tick(WarmJumps)
  \/ \E key \in Keys, forceRefresh \in BOOLEAN :
        cache[key].present /\ OneKey(key) /\ Request(key, forceRefresh)
  \/ \E r \in 1..Len(refreshes), s \in Sources,
        outcome \in {"ok", "error", "expired"} : GetSummaryAnswers(r, s, outcome)
  \/ \E r \in 1..Len(refreshes), ok \in BOOLEAN : SummarizerAnswers(r, ok)

WarmSpec == WarmInit /\ [][WarmNext]_vars

(* ---------------------------------------------------------------------- *)
(* The handlers while the providers receive new items                      *)
(* ---------------------------------------------------------------------- *)
(* the entry is that of a per-source handler, it is stale, and its source  *)
(* is connected                                                            *)
SnapInit ==
  /\ WarmStart(MaxSnapEvents)
  /\ \E key \in Keys :
       /\ key.type \in Sources
       /\ cache[key].present
       /\ cache[key].timestamp = StartClock - (CACHE_MAX_AGE + 1)
       /\ connected = [s \in Sources |-> s \in Asked(key.type)]

SnapNext ==
  \/ \E s \in Sources, i \in ItemIds : connected[s] /\ NewData(s, i)
  \/ \E key \in Keys, forceRefresh \in BOOLEAN :
        cache[key].present /\ OneKey(key) /\ Request(key, forceRefresh)
  \/ \E r \in 1..Len(refreshes), s \in Sources,
        outcome \in {"ok", "error", "expired"} : GetSummaryAnswers(r, s, outcome)
  \/ \E r \in 1..Len(refreshes), ok \in BOOLEAN : SummarizerAnswers(r, ok)

SnapSpec == SnapInit /\ [][SnapNext]_vars

(* ---------------------------------------------------------------------- *)
(* Disconnecting a source and resetting the setup                          *)
(* ---------------------------------------------------------------------- *)
(* a disconnect that also deletes the cache entries of the source *)
Disconnect_DropsEntries(s) ==
  /\ connected[s]
  /\ Event
  /\ connected' = [connected EXCEPT ![s] = FALSE]
  /\ cache' = [key \in Keys |-> IF key.type = s THEN NoEntry ELSE cache[key]]
  /\ UNCHANGED <<clock, held, storeVars, syncs, configured, refreshes, requests, faults, fanouts, answer, wa, sqlite>>

(* a disconnect that also deletes the source's sync_log row *)
Disconnect_ForgetWatermark(s) ==
  /\ connected[s]
  /\ Event
  /\ connected' = [connected EXCEPT ![s] = FALSE]
  /\ syncLog' = [syncLog EXCEPT ![s] = NoLog]
  /\ UNCHANGED <<clock, held, db, waChatsDb, rows, syncs, cacheVars, faults, answer, wa, sqlite>>

(* gmail-disconnect and notion-disconnect delete the source's keys of      *)
(* electron-store, whatsapp-disconnect logs the client out first.  The     *)
(* service objects, the database and the calls in flight stay.             *)
Disconnect(s) ==
  /\ connected[s]
  /\ Event
  /\ connected' = [connected EXCEPT ![s] = FALSE]
  /\ UNCHANGED <<clock, held, storeVars, syncs, cacheVars, faults, answer, wa, sqlite>>

(* WhatsAppService.destroy(): the client, if there is one, is destroyed   *)
(* and forgotten (isReady = false is the caller's write of `connected`);   *)
(* isInitializing is left as it is                                         *)
destroy(w) ==
  IF w.client = 0 THEN w
  ELSE [w EXCEPT !.clients[w.client] = "destroyed", !.client = 0]

(* reset-setup: store.clear() empties electron-store, the cache entries    *)
(* and the authenticated flags with it, and the WhatsApp client is         *)
(* destroyed; the summarizer keeps the client it was given.                *)
ResetSetup ==
  /\ Event
  /\ cache' = EmptyCache
  /\ connected' = [s \in Sources |-> FALSE]
  /\ wa' = destroy(wa)
  /\ UNCHANGED <<clock, held, storeVars, syncs, configured, refreshes,
                 requests, fanouts, faults, answer, sqlite>>

LifeInit == WarmStart(MaxLifeEvents)

LifeNext ==
  \/ \E s \in Sources : Disconnect(s)
  \/ ResetSetup
  \/ \E s \in Sources : InPlay(s) /\ Connect(s)
  \/ \E key \in Keys, forceRefresh \in BOOLEAN :
        key.type # "other" /\ OneKey(key) /\ Request(key, forceRefresh)
  \/ \E r \in 1..Len(refreshes), s \in Sources,
        outcome \in {"ok", "error", "expired"} : GetSummaryAnswers(r, s, outcome)
  \/ \E r \in 1..Len(refreshes), ok \in BOOLEAN : SummarizerAnswers(r, ok)

LifeSpec == LifeInit /\ [][LifeNext]_vars

(* the same handlers without reset-setup: sources are disconnected one by  *)
(* one                                                                     *)
DisconnectInit == WarmStart(MaxDisconnectEvents)

DisconnectNext ==
  \/ \E s \in Sources : Disconnect(s)
  \/ \E s \in Sources : InPlay(s) /\ Connect(s)
  \/ \E key \in Keys, forceRefresh \in BOOLEAN :
        key.type # "other" /\ OneKey(key) /\ Request(key, forceRefresh)
  \/ \E r \in 1..Len(refreshes), s \in Sources,
        outcome \in {"ok", "error", "expired"} : GetSummaryAnswers(r, s, outcome)
  \/ \E r \in 1..Len(refreshes), ok \in BOOLEAN : SummarizerAnswers(r, ok)

DisconnectSpec == DisconnectInit /\ [][DisconnectNext]_vars

(* ---------------------------------------------------------------------- *)
(* The handlers of a process that may have started without an API key      *)
(* ---------------------------------------------------------------------- *)
(* The key of the earlier run came from the store or from the environment; *)
(* this run has found one or none.                                         *)
(* Every source that the key of the stored entry asks is connected.        *)
KeyInit ==
  /\ StoredState(MaxKeyEvents)
  /\ configured \in BOOLEAN
  /\ \E key \in Keys :
       cache[key].present /\ connected = [s \in Sources |-> s \in Asked(key.type)]

(* one handler and one type per behaviour, whichever they are *)
OneCall(key) == \A q \in 1..Len(requests) : requests[q].key = key

KeyNext ==
  \/ SetApiKey
  \/ ResetSetup
  \/ \E key \in Keys, forceRefresh \in BOOLEAN :
        key.type # "other" /\ OneCall(key) /\ Request(key, forceRefresh)
  \/ \E type \in Sources, handler \in UncachedKinds :
        OneCall([type |-> type, kind |-> handler]) /\ Ask(type, handler)
  \/ \E r \in 1..Len(refreshes), s \in Sources,
        outcome \in {"ok", "error", "expired"} : GetSummaryAnswers(r, s, outcome)
  \/ \E r \in 1..Len(refreshes), ok \in BOOLEAN : SummarizerAnswers(r, ok)

KeySpec == KeyInit /\ [][KeyNext]_vars

(* ---------------------------------------------------------------------- *)
(* Disconnecting and reconnecting a source that has been synced before     *)
(* ---------------------------------------------------------------------- *)
(* The database file outlives the application: one source is connected,   *)
(* an earlier sync of it has written its watermark, recently or more than  *)
(* thirty days ago, and the provider may hold an item that arrived since.  *)
ReconnectInit ==
  /\ clock = StartClock
  /\ events = MaxReconnectEvents
  /\ \E s \in Sources, last \in {StartClock - 2, StartClock - 2 * MONTH},
        new \in SUBSET {1} :
       /\ connected = [x \in Sources |-> x = s]
       /\ held = [x \in Sources |->
                    [i \in ItemIds |->
                       IF x = s /\ i \in new THEN StartClock - 1 ELSE 0]]
       /\ syncLog = [x \in Sources |->
                       IF x = s
                       THEN [present |-> TRUE, last_sync_at |-> last,
                             records_synced |-> 0]
                       ELSE NoLog]
       /\ waChatsDb = IF s = "whatsapp"
                      THEN {WaChatList[c] : c \in DOMAIN WaChatList}
                      ELSE {}
  /\ db = [s \in Sources |-> [i \in ItemIds |-> 0]]
  /\ syncs = <<>>
  /\ configured = FALSE
  /\ cache = EmptyCache
  /\ refreshes = <<>>
  /\ requests = <<>>
  /\ fanouts = <<>>
  /\ rows = EmptyTables
  /\ faults = {}
  /\ answer = NoAnswer
  /\ wa = NoWa
  /\ sqlite = NoSqlite

ReconnectNext ==
  \/ \E s \in Sources : Disconnect(s)
  \/ ResetSetup
  \/ \E s \in Sources : syncLog[s].present /\ Connect(s)
  \/ \E s \in Sources, fullSync \in BOOLEAN :
       syncLog[s].present /\ CallSync(s, fullSync)
  \/ \E k \in DOMAIN syncs : SyncStep(k)

ReconnectSpec == ReconnectInit /\ [][ReconnectNext]_vars

(* ---------------------------------------------------------------------- *)
(* get-all-summaries: Promise.allSettled over the three getSummary calls   *)
(* ---------------------------------------------------------------------- *)
NoValue == [shape |-> "none", error |-> "", authenticated |-> FALSE]

(* x.status === 'fulfilled' ? x.value : { error: x.reason?.message } *)
SettledValue(x) ==
  IF x.state = "done"
  THEN [shape |-> "value", error |-> x.error, authenticated |-> x.authenticated]
  ELSE [shape |-> "errorOnly", error |-> x.error, authenticated |-> FALSE]

(* Promise.all in the place of Promise.allSettled: the first rejection     *)
(* rejects the handler.                                                    *)
AllSettled_All(call) ==
  IF \E s \in Sources : call.gs[s].state = "pending" THEN call
  ELSE IF \E s \in Sources : call.gs[s].state = "rejected"
  THEN [call EXCEPT !.pc = "done", !.outcome = "rejected",
                    !.gs = [s \in Sources |-> NotCalled]]
  ELSE [call EXCEPT !.pc = "done", !.outcome = "resolved",
                    !.response = [s \in Sources |-> SettledValue(call.gs[s])],
                    !.gs = [s \in Sources |-> NotCalled]]

(* The handler after a getSummary has settled: it goes on waiting while    *)
(* one is pending, and returns the three-keyed object after the last.      *)
AllSettled(call) ==
  IF \E s \in Sources : call.gs[s].state = "pending" THEN call
  ELSE [call EXCEPT !.pc = "done", !.outcome = "resolved",
                    !.response = [s \in Sources |-> SettledValue(call.gs[s])],
                    !.gs = [s \in Sources |-> NotCalled]]

AllSummaries ==
  /\ Event
  /\ fanouts' = Append(fanouts,
       AllSettled([pc |-> "provider", outcome |-> "pending",
                   gs |-> CallGetSummary("combined"),
                   response |-> [s \in Sources |-> NoValue]]))
  /\ syncs' = syncs \o BackgroundSyncs(Launched("combined"))
  /\ UNCHANGED <<clock, connected, held, storeVars, configured, cache,
                 refreshes, requests, faults, answer, wa, sqlite>>

(* a provider's getSummary settles for a get-all-summaries call *)
FanoutAnswers(f, s, outcome) ==
  LET call == fanouts[f]
  IN /\ call.pc = "provider"
     /\ call.gs[s].state = "pending"
     /\ outcome = "expired" => s # "whatsapp"
     /\ connected' = FlagAfter(s, outcome)
     /\ fanouts' = [fanouts EXCEPT ![f] =
          AllSettled([call EXCEPT !.gs[s] = GetSummaryResult(s, outcome)])]
     /\ UNCHANGED <<clock, events, held, storeVars, syncs, configured, cache,
                    refreshes, requests, faults, answer, wa, sqlite>>

(* electron-store or the database stops working: the store's file becomes *)
(* unreadable; the database is closed on 'window-all-closed' while the     *)
(* services stay alive, or its file cannot be written.                     *)
Break(x) ==
  /\ x \notin faults
  /\ Event
  /\ faults' = faults \cup {x}
  /\ UNCHANGED <<clock, connected, held, storeVars, syncs, cacheVars, answer, wa, sqlite>>

(* Any of the providers may be connected.  The background syncs that     *)
(* getSummary launches are recorded here; BgSpec runs them.                *)
FanInit ==
  /\ clock = StartClock
  /\ events = MaxFanEvents
  /\ connected \in [Sources -> BOOLEAN]
  /\ held = [s \in Sources |-> [i \in ItemIds |-> 0]]
  /\ db = [s \in Sources |-> [i \in ItemIds |-> 0]]
  /\ waChatsDb = {}
  /\ syncLog = [s \in Sources |-> NoLog]
  /\ syncs = <<>>
  /\ configured = FALSE
  /\ cache = EmptyCache
  /\ refreshes = <<>>
  /\ requests = <<>>
  /\ fanouts = <<>>
  /\ rows = EmptyTables
  /\ faults = {}
  /\ answer = NoAnswer
  /\ wa = NoWa
  /\ sqlite = NoSqlite

FanNext ==
  \/ \E x \in {"store", "db"} : Break(x)
  \/ AllSummaries
  \/ \E f \in DOMAIN fanouts, s \in Sources, outcome \in {"ok", "error", "expired"} :
       FanoutAnswers(f, s, outcome)

FanSpec == FanInit /\ [][FanNext]_vars

(* ---------------------------------------------------------------------- *)
(* getSummary together with the background sync it launches                *)
(* ---------------------------------------------------------------------- *)
(* The three services share no state, so this specification connects at   *)
(* most one of them, whichever it is; the getSummary calls are those of    *)
(* get-all-summaries, and here the syncs they launch run.  Each provider   *)
(* holds one item.                                                         *)
BgInit ==
  /\ clock = StartClock
  /\ events = MaxBgEvents
  /\ connected \in [Sources -> BOOLEAN]
  /\ \A a, b \in Sources : connected[a] /\ connected[b] => a = b
  /\ held = [s \in Sources |-> [i \in ItemIds |-> IF i = 1 THEN StartClock - 1 ELSE 0]]
  /\ db = [s \in Sources |-> [i \in ItemIds |-> 0]]
  /\ waChatsDb = {}
  /\ syncLog = [s \in Sources |-> NoLog]
  /\ syncs = <<>>
  /\ configured = FALSE
  /\ cache = EmptyCache
  /\ refreshes = <<>>
  /\ requests = <<>>
  /\ fanouts = <<>>
  /\ rows = EmptyTables
  /\ faults = {}
  /\ answer = NoAnswer
  /\ wa = NoWa
  /\ sqlite = NoSqlite

BgNext ==
  \/ \E x \in {"store", "db"} : Break(x)
  \/ AllSummaries
  \/ \E f \in DOMAIN fanouts, s \in Sources, outcome \in {"ok", "error", "expired"} :
       FanoutAnswers(f, s, outcome)
  \/ \E s \in Sources, fullSync \in BOOLEAN : CallSync(s, fullSync)
  \/ \E k \in DOMAIN syncs : SyncStep(k)

BgSpec == BgInit /\ [][BgNext]_vars

(* ---------------------------------------------------------------------- *)
(* Session expiry: getSummary and syncToDatabase of Gmail and Notion while *)
(* their sessions end and are renewed                                      *)
(* ---------------------------------------------------------------------- *)
(* Gmail or Notion is connected and WhatsApp is not; at most one source   *)
(* is connected at a time: the sources share neither flag nor call        *)
ExpiryInit ==
  /\ clock = StartClock
  /\ events = MaxExpiryEvents
  /\ connected \in [Sources -> BOOLEAN]
  /\ ~connected["whatsapp"]
  /\ connected["gmail"] # connected["notion"]
  /\ held = [s \in Sources |-> [i \in ItemIds |-> IF i = 1 THEN StartClock - 1 ELSE 0]]
  /\ db = [s \in Sources |-> [i \in ItemIds |-> 0]]
  /\ waChatsDb = {}
  /\ syncLog = [s \in Sources |-> NoLog]
  /\ syncs = <<>>
  /\ configured = FALSE
  /\ cache = EmptyCache
  /\ refreshes = <<>>
  /\ requests = <<>>
  /\ fanouts = <<>>
  /\ rows = EmptyTables
  /\ faults = {}
  /\ answer = NoAnswer
  /\ wa = NoWa
  /\ sqlite = NoSqlite

(* the source whose session has ended during this run *)
Lapsed(s) ==
  /\ ~connected[s]
  /\ \A o \in Sources \ {s} : ~connected[o]

(* the calls and their gates; the fetches of a sync that has passed its    *)
(* gate read no flag and are left out                                      *)
ExpiryNext ==
  \/ AllSummaries
  \/ \E f \in DOMAIN fanouts, s \in Sources, outcome \in {"ok", "error", "expired"} :
       FanoutAnswers(f, s, outcome)
  \/ \E s \in {"gmail", "notion"} : Lapsed(s) /\ Connect(s)
  \/ \E s \in {"gmail", "notion"}, fullSync \in BOOLEAN :
       (connected[s] \/ Lapsed(s)) /\ CallSync(s, fullSync)

ExpirySpec == ExpiryInit /\ [][ExpiryNext]_vars

(* ====================================================================== *)
(* WhatsAppService.initialize(): clients, timers and the reconnect         *)
(* ====================================================================== *)
(* A client is "initializing" from new Client() until it emits 'ready' or  *)
(* 'auth_failure' or is destroyed; a ready client may emit 'disconnected'. *)
(* A client emits nothing after 'auth_failure', 'disconnected' or          *)
(* destroy().  isReady is connected["whatsapp"].                           *)

(* the promise of the initialize() call that made client c settles, if it  *)
(* has not settled before                                                  *)
Settle(calls, c, status) ==
  [k \in DOMAIN calls |->
     IF calls[k].client = c /\ calls[k].status = "pending"
     THEN [calls[k] EXCEPT !.status = status] ELSE calls[k]]

(* initialize() without its first test *)
initialize_NoGuard(w, isReady) ==
  IF isReady /\ w.client # 0
  THEN [w EXCEPT !.calls = Append(@, [status |-> "ready", client |-> 0])]
  ELSE LET c == Len(w.clients) + 1
       IN [w EXCEPT !.isInitializing = TRUE,
                    !.client = c,
                    !.clients = Append(@, "initializing"),
                    !.timers = Append(@, [client |-> c, fired |-> FALSE]),
                    !.calls = Append(@, [status |-> "pending", client |-> c])]

(* initialize(), up to the return of its promise: the two early returns,   *)
(* or a new client with its handlers, client.initialize() and the timer of *)
(* 2 minutes                                                               *)
initialize(w, isReady) ==
  IF w.isInitializing
  THEN [w EXCEPT !.calls = Append(@, [status |-> "initializing", client |-> 0])]
  ELSE IF isReady /\ w.client # 0
  THEN [w EXCEPT !.calls = Append(@, [status |-> "ready", client |-> 0])]
  ELSE LET c == Len(w.clients) + 1
       IN [w EXCEPT !.isInitializing = TRUE,
                    !.client = c,
                    !.clients = Append(@, "initializing"),
                    !.timers = Append(@, [client |-> c, fired |-> FALSE]),
                    !.calls = Append(@, [status |-> "pending", client |-> c])]

(* whatsapp-init *)
Initialize ==
  /\ Event
  /\ wa' = initialize(wa, connected["whatsapp"])
  /\ UNCHANGED <<clock, connected, held, storeVars, syncs, cacheVars, faults, answer, sqlite>>

(* client.on('ready') *)
ClientReady(c) ==
  /\ wa.clients[c] = "initializing"
  /\ connected' = [connected EXCEPT !["whatsapp"] = TRUE]
  /\ wa' = [wa EXCEPT !.isInitializing = FALSE,
                      !.clients[c] = "ready",
                      !.calls = Settle(@, c, "ready")]
  /\ UNCHANGED <<clock, events, held, storeVars, syncs, cacheVars, faults, answer, sqlite>>

(* client.on('auth_failure') *)
ClientAuthFailure(c) ==
  /\ wa.clients[c] = "initializing"
  /\ wa' = [wa EXCEPT !.isInitializing = FALSE,
                      !.clients[c] = "failed",
                      !.calls = Settle(@, c, "rejected")]
  /\ UNCHANGED <<clock, events, connected, held, storeVars, syncs, cacheVars, faults, answer, sqlite>>

(* client.on('disconnected'): the flags, and the timer of 3 seconds *)
ClientDisconnected(c) ==
  /\ wa.clients[c] = "ready"
  /\ Event
  /\ connected' = [connected EXCEPT !["whatsapp"] = FALSE]
  /\ wa' = [wa EXCEPT !.isInitializing = FALSE,
                      !.clients[c] = "disconnected",
                      !.reconnects = @ + 1]
  /\ UNCHANGED <<clock, held, storeVars, syncs, cacheVars, faults, answer, sqlite>>

(* the timer of 3 seconds fires: the auto-reconnect *)
ReconnectFires ==
  /\ wa.reconnects > 0
  /\ wa' = IF ~connected["whatsapp"] /\ ~wa.isInitializing
           THEN initialize([wa EXCEPT !.client = 0, !.reconnects = @ - 1],
                           connected["whatsapp"])
           ELSE [wa EXCEPT !.reconnects = @ - 1]
  /\ UNCHANGED <<clock, events, connected, held, storeVars, syncs, cacheVars, faults, answer, sqlite>>

(* the timer of 2 minutes that the n-th initialize() with a client armed    *)
(* fires; the timers fire in the order in which they were armed            *)
TimeoutFires(n) ==
  /\ ~wa.timers[n].fired
  /\ \A m \in 1..(n - 1) : wa.timers[m].fired
  /\ wa' = IF ~connected["whatsapp"] /\ wa.isInitializing
           THEN [destroy(wa) EXCEPT
                   !.isInitializing = FALSE,
                   !.timers[n].fired = TRUE,
                   !.calls = Settle(@, wa.timers[n].client, "timeout")]
           ELSE [wa EXCEPT !.timers[n].fired = TRUE]
  /\ UNCHANGED <<clock, events, connected, held, storeVars, syncs, cacheVars, faults, answer, sqlite>>

(* the service as constructed: nothing stored, no source connected *)
ConnectInit ==
  /\ clock = StartClock
  /\ events = MaxConnectEvents
  /\ connected = [s \in Sources |-> FALSE]
  /\ held = [s \in Sources |-> [i \in ItemIds |-> 0]]
  /\ db = [s \in Sources |-> [i \in ItemIds |-> 0]]
  /\ waChatsDb = {}
  /\ syncLog = [s \in Sources |-> NoLog]
  /\ syncs = <<>>
  /\ configured = FALSE
  /\ cache = EmptyCache
  /\ refreshes = <<>>
  /\ requests = <<>>
  /\ fanouts = <<>>
  /\ rows = EmptyTables
  /\ faults = {}
  /\ answer = NoAnswer
  /\ wa = NoWa
  /\ sqlite = NoSqlite

ConnectNext ==
  \/ Initialize
  \/ ResetSetup
  \/ \E c \in DOMAIN wa.clients : ClientReady(c)
  \/ \E c \in DOMAIN wa.clients : ClientAuthFailure(c)
  \/ \E c \in DOMAIN wa.clients : ClientDisconnected(c)
  \/ ReconnectFires
  \/ \E n \in DOMAIN wa.timers : TimeoutFires(n)

ConnectSpec == ConnectInit /\ [][ConnectNext]_vars

(* ====================================================================== *)
(* Local Store: the record tables and their upserts                        *)
(* (DatabaseService, claude.js 491-641; the same statements in part_001)   *)
(* ====================================================================== *)
RowIds == 1..MaxRowIds
Bodies == {1, 2}

(* a record as a caller hands it to an upsert: its id and its other fields *)
Records == [id : RowIds, body : Bodies]

(* INSERT without OR REPLACE would keep the row that has the id *)
InsertOrReplace_Insert(table, rec, now) ==
  Append(table, [id |-> rec.id, body |-> rec.body, stamp |-> now])

(* INSERT OR REPLACE INTO <table> (id, ...) VALUES (?, ...): the row that  *)
(* holds the PRIMARY KEY is deleted and the new row is inserted; stamp is  *)
(* the column the store fills in (created_at, updated_at)                  *)
InsertOrReplace(table, rec, now) ==
  Append(SelectSeq(table, LAMBDA row : row.id # rec.id),
         [id |-> rec.id, body |-> rec.body, stamp |-> now])

(* for (const m of messages) { INSERT OR REPLACE ... } *)
RECURSIVE BulkInsertOrReplace(_, _, _)
BulkInsertOrReplace(table, recs, now) ==
  IF recs = <<>> THEN table
  ELSE BulkInsertOrReplace(InsertOrReplace(table, Head(recs), now),
                           Tail(recs), now)

(* upsertWhatsAppChat, upsertWhatsAppMessage, upsertGmailMessage,          *)
(* upsertNotionPage                                                        *)
Upsert(t, rec) ==
  /\ Event
  /\ rows' = [rows EXCEPT ![t] = InsertOrReplace(@, rec, clock)]
  /\ UNCHANGED <<clock, connected, held, db, waChatsDb, syncLog, syncs,
                 cacheVars, faults, answer, wa, sqlite>>

(* bulkUpsertWhatsAppMessages, bulkUpsertGmailMessages,                    *)
(* bulkUpsertNotionPages                                                   *)
BulkUpsert(t, recs) ==
  /\ t # "whatsapp_chats"
  /\ Event
  /\ rows' = [rows EXCEPT ![t] = BulkInsertOrReplace(@, recs, clock)]
  /\ UNCHANGED <<clock, connected, held, db, waChatsDb, syncLog, syncs,
                 cacheVars, faults, answer, wa, sqlite>>

StoreJumps == {1}

(* The tables share no row, so this specification writes to one table per *)
(* behaviour, whichever it is.                                             *)
OneTable(t) == \A o \in Tables \ {t} : rows[o] = <<>>

StoreNext ==
  \/ Tick(StoreJumps)
  \/ \E t \in Tables, rec \in Records : OneTable(t) /\ Upsert(t, rec)
  \/ \E t \in Tables, a, b \in Records :
        OneTable(t) /\ BulkUpsert(t, <<a, b>>)

StoreInit ==
  /\ clock = StartClock
  /\ events = MaxStoreEvents
  /\ connected = [s \in Sources |-> FALSE]
  /\ held = [s \in Sources |-> [i \in ItemIds |-> 0]]
  /\ db = [s \in Sources |-> [i \in ItemIds |-> 0]]
  /\ waChatsDb = {}
  /\ syncLog = [s \in Sources |-> NoLog]
  /\ syncs = <<>>
  /\ configured = FALSE
  /\ cache = EmptyCache
  /\ refreshes = <<>>
  /\ requests = <<>>
  /\ fanouts = <<>>
  /\ rows = EmptyTables
  /\ faults = {}
  /\ answer = NoAnswer
  /\ wa = NoWa
  /\ sqlite = NoSqlite

StoreSpec == StoreInit /\ [][StoreNext]_vars

(* ---------------------------------------------------------------------- *)
(* The two DatabaseService classes given the same calls: sql.js (rows,     *)
(* syncLog) and better-sqlite3 (sqlite)                                    *)
(* ---------------------------------------------------------------------- *)
(* the records of a batch whose statements have run when the statement of  *)
(* record failAt throws; failAt = 0: none throws                           *)
Ran(recs, failAt) ==
  IF failAt = 0 THEN recs ELSE SubSeq(recs, 1, failAt - 1)

(* sql.js: for (const m of messages) { this.runSql(...) } this.save();     *)
(* the statements that ran before the throw stay in the database           *)
BulkLoop(table, recs, failAt, now) ==
  BulkInsertOrReplace(table, Ran(recs, failAt), now)

(* better-sqlite3: this.db.transaction(...)(messages); a throw inside      *)
(* rolls the transaction back                                              *)
BulkTransaction(table, recs, failAt, now) ==
  IF failAt = 0 THEN BulkInsertOrReplace(table, recs, now) ELSE table

BothUpsert(t, rec) ==
  /\ Event
  /\ rows' = [rows EXCEPT ![t] = InsertOrReplace(@, rec, clock)]
  /\ sqlite' = [sqlite EXCEPT !.rows[t] = InsertOrReplace(@, rec, clock)]
  /\ UNCHANGED <<clock, connected, held, db, waChatsDb, syncLog, syncs,
                 cacheVars, faults, answer, wa>>

BothBulkUpsert(t, recs, failAt) ==
  /\ t # "whatsapp_chats"
  /\ Event
  /\ rows' = [rows EXCEPT ![t] = BulkLoop(@, recs, failAt, clock)]
  /\ sqlite' = [sqlite EXCEPT !.rows[t] = BulkTransaction(@, recs, failAt, clock)]
  /\ UNCHANGED <<clock, connected, held, db, waChatsDb, syncLog, syncs,
                 cacheVars, faults, answer, wa>>

(* updateSyncLog: Math.floor(Date.now() / 1000) in sql.js,                 *)
(* strftime('%s', 'now') in better-sqlite3                                 *)
BothUpdateSyncLog(source, recordsSynced) ==
  /\ Event
  /\ syncLog' = updateSyncLog(syncLog, source, recordsSynced, clock)
  /\ sqlite' = [sqlite EXCEPT !.sync_log =
                  updateSyncLog(@, source, recordsSynced, clock)]
  /\ UNCHANGED <<clock, connected, held, db, waChatsDb, rows, syncs,
                 cacheVars, faults, answer, wa>>

(* the SELECT of every row, of the row count and of last_sync_at: what     *)
(* the read calls of a DatabaseService return, from its tables             *)
ReadCalls(tables, log) ==
  [all |-> tables,
   getStats |-> [t \in Tables |-> Len(tables[t])],
   getLastSyncTime |->
     [s \in Sources |->
        IF log[s].present THEN JsNum(log[s].last_sync_at) ELSE JsNull]]

TwinInit ==
  /\ clock = StartClock
  /\ events = MaxTwinEvents
  /\ connected = [s \in Sources |-> FALSE]
  /\ held = [s \in Sources |-> [i \in ItemIds |-> 0]]
  /\ db = [s \in Sources |-> [i \in ItemIds |-> 0]]
  /\ waChatsDb = {}
  /\ syncLog = [s \in Sources |-> NoLog]
  /\ syncs = <<>>
  /\ configured = FALSE
  /\ cache = EmptyCache
  /\ refreshes = <<>>
  /\ requests = <<>>
  /\ fanouts = <<>>
  /\ rows = EmptyTables
  /\ faults = {}
  /\ answer = NoAnswer
  /\ wa = NoWa
  /\ sqlite = NoSqlite

TwinNext ==
  \/ Tick(StoreJumps)
  \/ \E t \in Tables, rec \in Records : OneTable(t) /\ BothUpsert(t, rec)
  \/ \E t \in Tables, a, b \in Records, failAt \in 0..2 :
        OneTable(t) /\ BothBulkUpsert(t, <<a, b>>, failAt)
  \/ \E s \in Sources, n \in 0..1 : BothUpdateSyncLog(s, n)

TwinSpec == TwinInit /\ [][TwinNext]_vars

(* ---------------------------------------------------------------------- *)
(* The queries by time filter, on a table that earlier syncs have filled   *)
(* ---------------------------------------------------------------------- *)
Query(source, timeFilter) ==
  /\ Event
  /\ answer' = [source |-> source, timeFilter |-> timeFilter, at |-> clock,
                rows |-> QueryRows(source, timeFilter)]
  /\ UNCHANGED <<clock, connected, held, storeVars, syncs, cacheVars, faults, wa, sqlite>>

(* stored timestamps: of today, of yesterday, of the last week, of the     *)
(* last month, older                                                       *)
QueryStamps ==
  {StartClock - 1, StartClock - DAY, StartClock - 5 * DAY,
   StartClock - 20 * DAY, StartClock - 40 * DAY}

QueryJumps == {1, DAY}

QueryInit ==
  /\ clock = StartClock
  /\ events = MaxQueryEvents
  /\ connected = [s \in Sources |-> FALSE]
  /\ held = [s \in Sources |-> [i \in ItemIds |-> 0]]
  /\ \E s \in Sources, stored \in [ItemIds -> QueryStamps \cup {0}] :
       db = [x \in Sources |-> [i \in ItemIds |-> IF x = s THEN stored[i] ELSE 0]]
  /\ waChatsDb = IF \E i \in ItemIds : db["whatsapp"][i] > 0
                 THEN {WaChatList[c] : c \in DOMAIN WaChatList}
                 ELSE {}
  /\ syncLog = [s \in Sources |->
                  IF \E i \in ItemIds : db[s][i] > 0
                  THEN [present |-> TRUE, last_sync_at |-> StartClock,
                        records_synced |-> 0]
                  ELSE NoLog]
  /\ syncs = <<>>
  /\ configured = FALSE
  /\ cache = EmptyCache
  /\ refreshes = <<>>
  /\ requests = <<>>
  /\ fanouts = <<>>
  /\ rows = EmptyTables
  /\ faults = {}
  /\ answer = NoAnswer
  /\ wa = NoWa
  /\ sqlite = NoSqlite

QueryNext ==
  \/ Tick(QueryJumps)
  \/ \E s \in Sources, timeFilter \in TimeFilters : Query(s, timeFilter)

QuerySpec == QueryInit /\ [][QueryNext]_vars

(* ====================================================================== *)
(* Properties of the Local Store                                           *)
(* ====================================================================== *)
(* the records that a query has returned *)
Returned_Ids(a) == {a.rows[n] : n \in DOMAIN a.rows}

(* C22: each of the three queries returns every stored record for 'all',   *)
(* and for 'today', 'week' and 'month' exactly the stored records with a   *)
(* timestamp not before local midnight, seven days ago and thirty days     *)
(* ago; so what each source returns for 'today' is within what it returns  *)
(* for 'week', that within 'month', and that within 'all'.                 *)
C22_FiltersHonoured ==
  /\ answer.source \in Sources =>
       LET table == db[answer.source]
           stored == {i \in ItemIds : table[i] > 0}
       IN Returned_Ids(answer) =
            CASE answer.timeFilter = "all" -> stored
              [] answer.timeFilter = "today" ->
                   {i \in stored : table[i] >= TodayTimestamp(answer.at)}
              [] answer.timeFilter = "week" ->
                   {i \in stored : table[i] >= answer.at - 7 * DAY}
              [] answer.timeFilter = "month" ->
                   {i \in stored : table[i] >= answer.at - 30 * DAY}
  /\ answer.source \in Sources /\ answer.at = clock =>
       LET got(f) == {QueryRows(answer.source, f)[n] :
                        n \in DOMAIN QueryRows(answer.source, f)}
           wider == CASE answer.timeFilter = "today" -> got("week")
                      [] answer.timeFilter = "week" -> got("month")
                      [] OTHER -> got("all")
       IN Returned_Ids(answer) \subseteq wider

(* the records of a table: what the callers wrote, without the stamp *)
RecordsOf(table) ==
  {[id |-> table[n].id, body |-> table[n].body] : n \in 1..Len(table)}

RowsWith(table, id) == {n \in 1..Len(table) : table[n].id = id}

(* C11: in every reachable table each id is held by at most one row; and  *)
(* upserting any record into it, singly or as part of a bulk upsert,      *)
(* leaves exactly one row with the record's id, holding the record's      *)
(* fields, leaves the records with other ids as they were, and doing it   *)
(* a second time leaves the same records as doing it once.                *)
C11_IdempotentUpsert ==
  \A t \in Tables :
    /\ \A id \in RowIds : Cardinality(RowsWith(rows[t], id)) <= 1
    /\ \A rec \in Records, other \in Records :
         LET once == InsertOrReplace(rows[t], rec, clock)
             twice == InsertOrReplace(once, rec, clock + 1)
             bulk == BulkInsertOrReplace(rows[t], <<other, rec>>, clock)
             again == BulkInsertOrReplace(bulk, <<other, rec>>, clock + 1)
             Kept(table, ids) == {r \in RecordsOf(table) : r.id \notin ids}
         IN /\ Cardinality(RowsWith(once, rec.id)) = 1
            /\ rec \in RecordsOf(once)
            /\ Kept(once, {rec.id}) = Kept(rows[t], {rec.id})
            /\ RecordsOf(twice) = RecordsOf(once)
            /\ Cardinality(RowsWith(bulk, rec.id)) = 1
            /\ rec \in RecordsOf(bulk)
            /\ Kept(bulk, {rec.id, other.id}) = Kept(rows[t], {rec.id, other.id})
            /\ RecordsOf(again) = RecordsOf(bulk)

(* a table holds two rows, and the row of id 1 was written, with other    *)
(* fields, after the table had been filled                                 *)
C11_Witness ==
  \E t \in Tables :
    /\ Len(rows[t]) = 2
    /\ rows[t][1].id = 2 /\ rows[t][1].stamp = StartClock
    /\ rows[t][2].id = 1 /\ rows[t][2].body = 2
    /\ rows[t][2].stamp > StartClock
    /\ events = 0

(* ====================================================================== *)
(* Properties of get-all-summaries                                         *)
(* ====================================================================== *)
FanPending(call) == {s \in Sources : call.gs[s].state = "pending"}

(* C12: get-all-summaries starts the three getSummary calls and returns    *)
(* only after the last has settled; a provider whose getSummary rejects    *)
(* gets { error } under its key, each of the others gets the value it      *)
(* returned, and the handler itself never rejects.                         *)
C12_FanoutIsolation ==
  [][ /\ \A f \in DOMAIN fanouts' :
           /\ fanouts'[f].outcome # "rejected"
           /\ fanouts'[f].pc = "provider" =>
                /\ fanouts'[f].outcome = "pending"
                /\ FanPending(fanouts'[f]) # {}
                /\ \A s \in Sources : fanouts'[f].gs[s].state # "none"
           /\ fanouts'[f].pc = "done" =>
                /\ fanouts'[f].outcome = "resolved"
                /\ \A s \in Sources :
                     fanouts'[f].response[s].shape \in {"value", "errorOnly"}
      /\ \A f \in DOMAIN fanouts :
           fanouts[f].pc = "provider" /\ fanouts'[f].pc = "done" =>
             /\ Cardinality(FanPending(fanouts[f])) = 1
             /\ \A s \in Sources :
                  LET was == fanouts[f].gs[s]
                      got == fanouts'[f].response[s]
                  IN /\ was.state = "done" =>
                          got = [shape |-> "value", error |-> was.error,
                                 authenticated |-> was.authenticated]
                     /\ was.state = "rejected" =>
                          got = [shape |-> "errorOnly", error |-> was.error,
                                 authenticated |-> FALSE]
      /\ Len(fanouts') > Len(fanouts) =>
           \A s \in Sources :
             LET call == fanouts'[Len(fanouts')]
             IN /\ GateThrows(s) /\ call.pc = "done" =>
                     call.response[s].shape = "errorOnly"
                /\ GateThrows(s) /\ call.pc = "provider" =>
                     call.gs[s].state = "rejected"
                /\ ~GateThrows(s) /\ call.pc = "done" =>
                     call.response[s].shape = "value"
    ]_vars

(* Gmail's getSummary rejected while the call was waiting, and the two    *)
(* other keys hold what Notion and WhatsApp returned.                      *)
C12_Witness ==
  \E f \in DOMAIN fanouts :
    /\ fanouts[f].pc = "done"
    /\ fanouts[f].outcome = "resolved"
    /\ fanouts[f].response["gmail"] =
         [shape |-> "errorOnly", error |-> "store failed", authenticated |-> FALSE]
    /\ fanouts[f].response["notion"] =
         [shape |-> "value", error |-> "", authenticated |-> TRUE]
    /\ fanouts[f].response["whatsapp"].shape = "value"

Asks == Len(requests') = Len(requests) + 1

(* the refresh r returns in this step *)
RefreshReturns(r) == refreshes[r].pc # "done" /\ refreshes'[r].pc = "done"

(* C1: with the API key set, a non-forced request for a key whose entry   *)
(* is older than CACHE_MAX_AGE is answered in the step of the request     *)
(* with the payload the cache held, fromCache and isStale true and no     *)
(* error; the request leaves the cache alone and starts exactly one       *)
(* refresh of that key, which it does not wait for; and an answer, once   *)
(* given, is never changed by what a refresh does later.                  *)
C1_StaleHit ==
  [][/\ (/\ Asks /\ configured
         /\ ~requests'[Len(requests')].force
         /\ cache[requests'[Len(requests')].key].present
         /\ clock - cache[requests'[Len(requests')].key].timestamp
              > CACHE_MAX_AGE)
        => /\ requests'[Len(requests')].response =
                [status |-> "done",
                 summary |-> cache[requests'[Len(requests')].key].data,
                 fromCache |-> TRUE, isStale |-> TRUE, error |-> "",
                 cacheAge |-> clock
                    - cache[requests'[Len(requests')].key].timestamp]
           /\ cache' = cache
           /\ Len(refreshes') = Len(refreshes) + 1
           /\ refreshes'[Len(refreshes')].key = requests'[Len(requests')].key
           /\ refreshes'[Len(refreshes')].mode = "bg"
           /\ \A r \in 1..Len(refreshes) : refreshes'[r] = refreshes[r]
     /\ \A q \in 1..Len(requests) :
          requests[q].response.status = "done" => requests'[q] = requests[q]
    ]_vars

(* a stale answer was given and the refresh it started has since written  *)
(* another payload to the cache                                            *)
C1_Witness ==
  \E r \in 1..Len(refreshes) :
    /\ refreshes[r].mode = "bg"
    /\ refreshes[r].result.status = "success"
    /\ requests[refreshes[r].req].response.isStale
    /\ cache[refreshes[r].key].data = refreshes[r].result.summary
    /\ requests[refreshes[r].req].response.summary
         # cache[refreshes[r].key].data

C3_MissOrForcedWaits ==
  [][/\ (/\ Asks /\ configured
         /\ \/ requests'[Len(requests')].force
            \/ ~cache[requests'[Len(requests')].key].present)
        => /\ Len(refreshes') = Len(refreshes) + 1
           /\ refreshes'[Len(refreshes')].key = requests'[Len(requests')].key
           /\ refreshes'[Len(refreshes')].mode = "awaited"
           /\ refreshes'[Len(refreshes')].req = Len(requests')
     /\ \A r \in 1..Len(refreshes') :
          refreshes'[r].mode = "awaited" =>
            /\ refreshes'[r].pc # "done" =>
                 requests'[refreshes'[r].req].response.status = "pending"
            /\ (refreshes'[r].pc = "done"
                  /\ refreshes'[r].result.status = "success") =>
                 requests'[refreshes'[r].req].response =
                   [status |-> "done", fromCache |-> FALSE,
                    isStale |-> FALSE, cacheAge |-> 0, error |-> "",
                    summary |-> refreshes'[r].result.summary]
            /\ (refreshes'[r].pc = "done"
                  /\ refreshes'[r].result.status = "error") =>
                 /\ requests'[refreshes'[r].req].response.status = "done"
                 /\ requests'[refreshes'[r].req].response.error # ""
                 /\ requests'[refreshes'[r].req].response.error
                      = refreshes'[r].result.error
     /\ \A r \in 1..Len(refreshes) :
          (RefreshReturns(r) /\ refreshes'[r].result.status = "success") =>
            cache'[refreshes[r].key] =
              [present |-> TRUE, timestamp |-> clock,
               data |-> refreshes'[r].result.summary]
    ]_vars

(* a forced request met a fresh entry and was answered, not from the      *)
(* cache, with the payload its own refresh wrote over that entry          *)
C3_Witness ==
  \E p, q \in 1..Len(requests) :
    /\ p < q
    /\ requests[p].response.status = "done"
    /\ requests[p].response.error = ""
    /\ requests[q].force
    /\ requests[q].response.status = "done"
    /\ requests[q].response.error = ""
    /\ ~requests[q].response.fromCache
    /\ requests[q].response.summary = cache[requests[q].key].data
    /\ requests[q].response.summary # requests[p].response.summary
    /\ cache[requests[q].key].timestamp = clock

(* C4: when a refresh started by a stale hit ends in an error, of the     *)
(* provider or of the summarizer, the request that started it keeps the   *)
(* answer it was given, which is the stale payload with an empty error,   *)
(* and the cache entry stays; the error is the value the refresh returns. *)
C4_BackgroundErrorHidden ==
  [][\A r \in 1..Len(refreshes) :
       (/\ refreshes[r].mode = "bg"
        /\ RefreshReturns(r)
        /\ refreshes'[r].result.status = "error")
       => /\ requests'[refreshes[r].req] = requests[refreshes[r].req]
          /\ requests'[refreshes[r].req].response.status = "done"
          /\ requests'[refreshes[r].req].response.fromCache
          /\ requests'[refreshes[r].req].response.isStale
          /\ requests'[refreshes[r].req].response.error = ""
          /\ refreshes'[r].result.error # ""
          /\ cache' = cache
    ]_vars

(* the summarizer failed in a background refresh whose request holds the  *)
(* stale payload                                                           *)
C4_Witness ==
  \E r \in 1..Len(refreshes) :
    /\ refreshes[r].mode = "bg"
    /\ refreshes[r].result.error = "summarizer failed"
    /\ requests[refreshes[r].req].response.isStale
    /\ requests[refreshes[r].req].response.summary
         = cache[refreshes[r].key].data

(* C13: the summarizer of a combined refresh is handed a source only if    *)
(* that source's getSummary was fulfilled, without an error result and     *)
(* with authenticated = true; every other source is passed as null.        *)
C13_OnlySuccessfulSources ==
  \A r \in DOMAIN refreshes :
    refreshes[r].key.type = "combined" /\ refreshes[r].pc = "summarizer" =>
      refreshes[r].input = {s \in Sources : /\ refreshes[r].gs[s].state = "done"
                                            /\ refreshes[r].gs[s].error = ""
                                            /\ refreshes[r].gs[s].authenticated}

(* ====================================================================== *)
(* Properties of overlapping requests                                      *)
(* ====================================================================== *)
InFlight(key) ==
  {r \in DOMAIN refreshes : refreshes[r].key = key /\ refreshes[r].pc # "done"}

(* C15: a non-forced request that hits a stale entry launches a refresh    *)
(* of its own whether or not another refresh of that key is in flight; a   *)
(* step of one refresh leaves every other refresh as it was; and each      *)
(* refresh that succeeds writes the entry, which then holds that refresh's *)
(* payload stamped with the time of the write.  Nothing else writes.       *)
C15_RefreshesNotSerialized ==
  [][/\ (/\ Asks
         /\ ~requests'[Len(requests')].force
         /\ getCachedSummary(requests'[Len(requests')].key).present
         /\ getCachedSummary(requests'[Len(requests')].key).isStale)
        => /\ Len(refreshes') = Len(refreshes) + 1
           /\ refreshes'[Len(refreshes')].key = requests'[Len(requests')].key
           /\ \A r \in InFlight(refreshes'[Len(refreshes')].key) :
                refreshes'[r] = refreshes[r]
     /\ \A r \in DOMAIN refreshes :
          /\ (refreshes'[r] # refreshes[r]) =>
               \A o \in DOMAIN refreshes \ {r} : refreshes'[o] = refreshes[o]
          /\ (RefreshReturns(r) /\ refreshes'[r].result.status = "success") =>
               cache' = [cache EXCEPT ![refreshes[r].key] =
                           [present |-> TRUE,
                            data |-> refreshes'[r].result.summary,
                            timestamp |-> clock']]
     /\ cache' # cache =>
          \E r \in DOMAIN refreshes :
            RefreshReturns(r) /\ refreshes'[r].result.status = "success"
    ]_vars

(* Two requests were answered with the stale payload of the earlier run,   *)
(* so both refreshes were launched before either wrote; both have written  *)
(* since, the second first, and the entry is the first one's, stamped with *)
(* the time it was written.                                                *)
C15_Witness ==
  /\ Len(requests) = 2 /\ Len(refreshes) = 2
  /\ \A q \in {1, 2} :
       /\ requests[q].response.isStale
       /\ requests[q].response.summary = 0
       /\ refreshes[q].mode = "bg"
       /\ refreshes[q].result.status = "success"
  /\ refreshes[1].key = refreshes[2].key
  /\ cache[refreshes[1].key].data = 1
  /\ cache[refreshes[1].key].timestamp = StartClock + 1

(* C16 as stated: whenever an entry exists for the key, a request is       *)
(* answered in its own step with cached data.                              *)
C16_CachedNeverBlocks ==
  [][(Asks /\ cache[requests'[Len(requests')].key].present)
       => /\ requests'[Len(requests')].response.status = "done"
          /\ requests'[Len(requests')].response.fromCache
    ]_vars

(* C16, amended: with the API key set, a request without forceRefresh for  *)
(* a key that has an entry is answered in its own step with the payload of *)
(* that entry, whatever refreshes of the key are in flight, and neither    *)
(* the request nor a later step of a refresh changes that answer.          *)
C16_NonForcedNeverBlocks ==
  [][/\ (/\ Asks /\ configured
         /\ ~requests'[Len(requests')].force
         /\ cache[requests'[Len(requests')].key].present)
        => /\ requests'[Len(requests')].response.status = "done"
           /\ requests'[Len(requests')].response.fromCache
           /\ requests'[Len(requests')].response.error = ""
           /\ requests'[Len(requests')].response.summary =
                cache[requests'[Len(requests')].key].data
           /\ cache' = cache
           /\ \A r \in DOMAIN refreshes : refreshes'[r] = refreshes[r]
     /\ \A q \in DOMAIN requests :
          requests[q].response.fromCache => requests'[q] = requests[q]
    ]_vars

(* a forced request is still waiting for its refresh, and a later request  *)
(* for the same key has been answered from the cache                       *)
C16_Witness ==
  /\ Len(requests) = 2
  /\ requests[1].force
  /\ requests[1].response.status = "pending"
  /\ refreshes[1].pc # "done"
  /\ requests[2].key = requests[1].key
  /\ ~requests[2].force
  /\ requests[2].response.status = "done"
  /\ requests[2].response.fromCache

(* ====================================================================== *)
(* Properties of the providers' gates and of the background sync           *)
(* ====================================================================== *)
(* this step is a get-all-summaries call, which makes the three getSummary *)
(* calls and becomes fanouts'[Len(fanouts')]                               *)
CallsGetSummary == Len(fanouts') = Len(fanouts) + 1

(* the syncToDatabase calls that this step makes *)
NewSyncs == (DOMAIN syncs') \ (DOMAIN syncs)

(* what the call just made holds for source s: a settled result or a fetch *)
(* in progress                                                             *)
GotFrom(call, s) ==
  IF call.pc = "done" THEN call.response[s] ELSE SettledValue(call.gs[s])

(* the getSummary of source s that call f made settles in this step *)
Settles(f, s) ==
  /\ fanouts[f].gs[s].state = "pending"
  /\ \/ fanouts'[f].pc = "done"
     \/ fanouts'[f].gs[s].state # "pending"

SessionExpired == "Session expired. Please re-authenticate."

(* C35: a getSummary of Gmail or Notion that ends with the provider's      *)
(* unauthorized error returns authenticated = false and leaves the stored  *)
(* flag false; one that ends with another error returns authenticated =    *)
(* true with the error and leaves the flags as they are.  While the flag   *)
(* is false, every getSummary and every syncToDatabase of the source made  *)
(* returns the not-authenticated error at once, and the flag becomes true  *)
(* again only by authenticate, never by a getSummary or a sync.            *)
C35_SessionExpiry ==
  [][/\ \A f \in DOMAIN fanouts, s \in {"gmail", "notion"} :
          Settles(f, s) =>
            LET got == GotFrom(fanouts'[f], s)
            IN /\ got.shape = "value"
               /\ got.error = SessionExpired =>
                    ~got.authenticated /\ ~connected'[s]
               /\ got.error # SessionExpired =>
                    /\ got.authenticated
                    /\ connected' = connected
                    /\ got.error \in {"", "provider failed"}
     /\ CallsGetSummary =>
          \A s \in {"gmail", "notion"} : ~connected[s] =>
            /\ GotFrom(fanouts'[Len(fanouts')], s) =
                 [shape |-> "value", error |-> "Not authenticated",
                  authenticated |-> FALSE]
            /\ \A k \in NewSyncs : syncs'[k].src # s
     /\ \A k \in NewSyncs : ~connected[syncs'[k].src] =>
          /\ syncs'[k].pc = "done"
          /\ syncs'[k].result.status = "error"
          /\ syncs'[k].result.error = "Not authenticated"
     /\ \A s \in {"gmail", "notion"} : ~connected[s] /\ connected'[s] =>
          /\ events' = events - 1
          /\ fanouts' = fanouts /\ syncs' = syncs
    ]_vars

(* Gmail's session expired during a first get-all-summaries; a second call *)
(* and a direct sync then returned the not-authenticated error at once.    *)
C35_Witness ==
  /\ Len(fanouts) = 2
  /\ fanouts[1].pc = "done" /\ fanouts[2].pc = "done"
  /\ fanouts[1].response["gmail"] =
       [shape |-> "value", error |-> SessionExpired, authenticated |-> FALSE]
  /\ fanouts[2].response["gmail"] =
       [shape |-> "value", error |-> "Not authenticated", authenticated |-> FALSE]
  /\ ~connected["gmail"]
  /\ \E k \in DOMAIN syncs :
       /\ syncs[k].src = "gmail" /\ ~syncs[k].bg /\ syncs[k].gated
       /\ syncs[k].result.error = "Not authenticated"

(* C17: while electron-store can be read, getSummary of a provider that is *)
(* not connected returns, without a fetch, a result with an error message  *)
(* and authenticated = false and launches no sync; syncToDatabase of such  *)
(* a provider returns a result with an error message; neither rejects, and *)
(* the step writes no record and no watermark.  What was returned stays.   *)
C17_AuthGate ==
  [][/\ CallsGetSummary =>
          \A s \in Sources : ~connected[s] /\ ~GateThrows(s) =>
            /\ fanouts'[Len(fanouts')].gs[s].state \notin {"pending", "rejected"}
            /\ GotFrom(fanouts'[Len(fanouts')], s) =
                 [shape |-> "value", error |-> GateError(s),
                  authenticated |-> FALSE]
            /\ \A k \in NewSyncs : syncs'[k].src # s
            /\ <<db, waChatsDb, syncLog>>' = <<db, waChatsDb, syncLog>>
     /\ \A k \in NewSyncs :
          ~connected[syncs'[k].src] /\ ~GateThrows(syncs'[k].src) =>
            /\ ~syncs'[k].bg
            /\ syncs'[k].pc = "done"
            /\ syncs'[k].result.status = "error"
            /\ syncs'[k].result.error = GateError(syncs'[k].src)
            /\ <<db, waChatsDb, syncLog>>' = <<db, waChatsDb, syncLog>>
     /\ \A k \in DOMAIN syncs : syncs[k].gated => syncs'[k] = syncs[k]
    ]_vars

(* Notion, not connected, was asked for its summary and, directly, to     *)
(* sync; both returned at the gate and no sync of Notion was launched.     *)
C17_Witness ==
  /\ ~connected["notion"]
  /\ \E f \in DOMAIN fanouts :
       /\ fanouts[f].pc = "done"
       /\ fanouts[f].response["notion"] =
            [shape |-> "value", error |-> "Not authenticated",
             authenticated |-> FALSE]
  /\ Len(syncs) = 1
  /\ syncs[1].src = "notion" /\ syncs[1].gated /\ ~syncs[1].bg
  /\ syncs[1].result.error = "Not authenticated"

(* a rejected syncToDatabase call that nobody has attached a handler to;   *)
(* getSummary attaches .catch to the calls it makes                        *)
Unhandled(task) == task.result.status = "rejected" /\ ~task.bg

(* C18: getSummary of a connected provider makes exactly one               *)
(* syncToDatabase call, with fullSync false and a catch handler, and goes  *)
(* on to its own fetch whatever that call did, even when it has already    *)
(* failed; no step of a sync changes a getSummary call or its result; a    *)
(* getSummary is rejected only by a failure of electron-store, never by a  *)
(* failure of a sync; and no sync it launched is an unhandled rejection.   *)
C18_BackgroundSyncDetached ==
  [][/\ CallsGetSummary =>
          \A s \in Sources : connected[s] /\ ~GateThrows(s) =>
            /\ Cardinality({k \in NewSyncs : syncs'[k].src = s}) = 1
            /\ \A k \in NewSyncs : syncs'[k].src = s =>
                 ~syncs'[k].full /\ syncs'[k].bg
            /\ fanouts'[Len(fanouts')].gs[s].state = "pending"
     /\ (~CallsGetSummary /\ syncs' # syncs) => fanouts' = fanouts
     /\ \A f \in DOMAIN fanouts', s \in Sources :
          \/ fanouts'[f].gs[s].state = "rejected"
          \/ fanouts'[f].response[s].shape = "errorOnly"
          => "store" \in faults'
     /\ \A k \in DOMAIN syncs' : syncs'[k].bg => ~Unhandled(syncs'[k])
    ]_vars

(* WhatsApp's background sync failed reading the watermark, and WhatsApp's *)
(* getSummary returned its summary all the same                            *)
C18_Witness ==
  /\ \E k \in DOMAIN syncs :
       /\ syncs[k].src = "whatsapp" /\ syncs[k].bg
       /\ syncs[k].result.status = "rejected"
  /\ \E f \in DOMAIN fanouts :
       /\ fanouts[f].pc = "done"
       /\ fanouts[f].response["whatsapp"] =
            [shape |-> "value", error |-> "", authenticated |-> TRUE]

(* C19: no getSummary call, no syncToDatabase call and no                  *)
(* get-all-summaries call is ever rejected, whatever fails.                *)
C19_NothingRejects ==
  /\ \A k \in DOMAIN syncs : syncs[k].result.status # "rejected"
  /\ \A f \in DOMAIN fanouts :
       /\ fanouts[f].outcome # "rejected"
       /\ \A s \in Sources :
            /\ fanouts[f].gs[s].state # "rejected"
            /\ fanouts[f].response[s].shape # "errorOnly"

(* ====================================================================== *)
(* Properties of what a refresh leaves in the cache                        *)
(* ====================================================================== *)
(* refresh r returns in this step, be it the step of the request that     *)
(* started it                                                              *)
RefreshEnds(r) ==
  /\ refreshes'[r].pc = "done"
  /\ r \in DOMAIN refreshes => refreshes[r].pc # "done"

(* C25: the step in which a refresh returns an error (invalid type,        *)
(* provider not authenticated, provider error, summarizer failure) leaves  *)
(* every cache entry as it was; the cache changes only in the step in      *)
(* which a refresh returns its summary, and then only the entry of that    *)
(* refresh's key.                                                          *)
C25_FailedRefreshKeepsEntry ==
  [][/\ \A r \in DOMAIN refreshes' :
          RefreshEnds(r) /\ refreshes'[r].result.status = "error" =>
            cache' = cache
     /\ cache' # cache =>
          \E r \in DOMAIN refreshes :
            /\ RefreshReturns(r)
            /\ refreshes'[r].result.status = "success"
            /\ \A key \in Keys \ {refreshes[r].key} : cache'[key] = cache[key]
            /\ cache'[refreshes[r].key].data = refreshes'[r].result.summary
    ]_vars

(* a forced refresh failed at the summarizer and the entry an earlier      *)
(* refresh wrote is still there                                            *)
C25_Witness ==
  \E r \in DOMAIN refreshes :
    /\ refreshes[r].mode = "awaited"
    /\ requests[refreshes[r].req].force
    /\ refreshes[r].result.error = "summarizer failed"
    /\ cache[refreshes[r].key].present
    /\ cache[refreshes[r].key].data # r
    /\ cache[refreshes[r].key].timestamp < clock

(* C26: a background refresh that succeeds writes its payload to the       *)
(* entry of its key and leaves the request that started it with the stale  *)
(* payload it was answered with; as long as that payload is the entry and  *)
(* its age is within CACHE_MAX_AGE, a request without forceRefresh is      *)
(* answered with it, fromCache true and not stale, and starts no refresh;  *)
(* an answer from the cache is never changed afterwards.                   *)
C26_NextRequestGetsRefresh ==
  [][/\ \A r \in DOMAIN refreshes :
          (/\ refreshes[r].mode = "bg"
           /\ RefreshReturns(r)
           /\ refreshes'[r].result.status = "success")
          => /\ cache'[refreshes[r].key] =
                  [present |-> TRUE, data |-> refreshes'[r].result.summary,
                   timestamp |-> clock']
             /\ requests'[refreshes[r].req] = requests[refreshes[r].req]
             /\ requests'[refreshes[r].req].response.summary
                  # refreshes'[r].result.summary
     /\ (/\ Asks /\ configured
         /\ ~requests'[Len(requests')].force
         /\ \E r \in DOMAIN refreshes :
              /\ refreshes[r].mode = "bg"
              /\ refreshes[r].key = requests'[Len(requests')].key
              /\ refreshes[r].result.status = "success"
              /\ cache[refreshes[r].key].present
              /\ cache[refreshes[r].key].data = refreshes[r].result.summary
         /\ clock - cache[requests'[Len(requests')].key].timestamp
              <= CACHE_MAX_AGE)
        => /\ requests'[Len(requests')].response =
                [status |-> "done",
                 summary |-> cache[requests'[Len(requests')].key].data,
                 fromCache |-> TRUE, isStale |-> FALSE, error |-> "",
                 cacheAge |-> clock
                    - cache[requests'[Len(requests')].key].timestamp]
           /\ refreshes' = refreshes
           /\ cache' = cache
     /\ \A q \in DOMAIN requests :
          requests[q].response.fromCache => requests'[q] = requests[q]
    ]_vars

(* the first request holds the stale payload of the earlier run, the       *)
(* refresh it started has written its own, and a request made one clock    *)
(* step later was answered with that, from the cache and not stale         *)
C26_Witness ==
  /\ Len(requests) = 2 /\ Len(refreshes) = 1
  /\ refreshes[1].mode = "bg" /\ refreshes[1].req = 1
  /\ refreshes[1].result.status = "success"
  /\ requests[1].response.isStale
  /\ requests[1].response.summary = 0
  /\ requests[2].response.fromCache
  /\ ~requests[2].response.isStale
  /\ requests[2].response.summary = refreshes[1].result.summary
  /\ requests[2].response.cacheAge = 1

(* C27: a refresh of a source's key calls the summarizer only with a       *)
(* getSummary result that has no error and authenticated = true; with any  *)
(* other result it returns, in the step in which the result arrives, an    *)
(* error with a message, and that step leaves the cache as it was.         *)
C27_ProviderErrorEndsRefresh ==
  [][\A r \in DOMAIN refreshes' :
       refreshes'[r].key.type \in Sources =>
         /\ refreshes'[r].pc = "summarizer" =>
              /\ refreshes'[r].gs[refreshes'[r].key.type] =
                   [state |-> "done", error |-> "", authenticated |-> TRUE]
              /\ refreshes'[r].input = {refreshes'[r].key.type}
         /\ (/\ r \in DOMAIN refreshes
             /\ refreshes[r].pc = "provider"
             /\ refreshes'[r] # refreshes[r]) =>
              refreshes'[r].pc \in {"done", "summarizer"}
         /\ (/\ RefreshEnds(r)
             /\ r \in DOMAIN refreshes => refreshes[r].pc = "provider") =>
              /\ refreshes'[r].result.status = "error"
              /\ refreshes'[r].result.error # ""
              /\ refreshes'[r].input = {}
              /\ cache' = cache
    ]_vars

(* Gmail answered a refresh with an error result that says authenticated:  *)
(* true; the refresh returned that error and the key has no entry          *)
C27_Witness ==
  \E r \in DOMAIN refreshes :
    /\ refreshes[r].key.type = "gmail"
    /\ refreshes[r].pc = "done"
    /\ refreshes[r].result = RefreshError("provider failed")
    /\ ~cache[refreshes[r].key].present

(* the refresh whose summary the entry of key holds, if a refresh of this  *)
(* run wrote it                                                            *)
WrittenBy(entry) ==
  IF entry.present /\ entry.data \in DOMAIN refreshes THEN {entry.data} ELSE {}

(* C28 as stated: a step that replaces the payload of an entry puts in a   *)
(* payload built from a provider view that is not older than the view      *)
(* behind the payload it replaces.                                         *)
C28_PayloadOnlyForward ==
  [][\A key \in Keys : \A old \in WrittenBy(cache[key]) :
        \A new \in WrittenBy(cache'[key]) \ {old} :
          Newer(refreshes[new].seen, refreshes[old].seen)]_vars

(* C28: the last write wins.  The step in which a refresh returns its      *)
(* summary puts that summary, stamped with the time of the step, into the  *)
(* entry of its key, whatever view the entry it replaces was built from;   *)
(* and the view behind an entry holds no item later than the entry's       *)
(* timestamp, so the data is at least as old as the reported age.          *)
C28_LastWriteWins ==
  [][\A r \in DOMAIN refreshes :
        RefreshEnds(r) /\ refreshes'[r].result.status = "success" =>
          /\ cache'[refreshes[r].key] =
               [present |-> TRUE, data |-> r, timestamp |-> clock]
          /\ \A s \in Sources, i \in ItemIds :
               refreshes'[r].seen[s][i] <= cache'[refreshes[r].key].timestamp
    ]_vars

(* two refreshes of one key overlapped; the entry holds the summary of the *)
(* one that wrote last, which saw less of the provider than the other      *)
C28_Witness ==
  \E key \in Keys, a, b \in DOMAIN refreshes :
    /\ a # b
    /\ refreshes[a].key = key /\ refreshes[b].key = key
    /\ refreshes[a].result.status = "success"
    /\ refreshes[b].result.status = "success"
    /\ cache[key].data = b
    /\ Newer(refreshes[a].seen, refreshes[b].seen)
    /\ ~Newer(refreshes[b].seen, refreshes[a].seen)

(* C32: a combined refresh always goes on to the summarizer once its three *)
(* getSummary calls have settled, with the results of the sources that are *)
(* authenticated as input, be there none; it returns an error only when    *)
(* the summarizer fails, and otherwise puts the summary into the entry     *)
(* (combined, daily).                                                      *)
C32_CombinedAlwaysSummarizes ==
  [][\A r \in DOMAIN refreshes' : refreshes'[r].key.type = "combined" =>
       /\ refreshes'[r].pc = "summarizer"
          /\ (r \in DOMAIN refreshes => refreshes[r].pc = "provider")
          => refreshes'[r].input =
               {s \in Sources : refreshes'[r].gs[s].state = "done"
                                /\ refreshes'[r].gs[s].authenticated}
       /\ RefreshEnds(r) =>
            /\ r \in DOMAIN refreshes
            /\ refreshes[r].pc = "summarizer"
            /\ refreshes'[r].result.status = "error" =>
                 refreshes'[r].result.error = "summarizer failed" /\ cache' = cache
            /\ refreshes'[r].result.status = "success" =>
                 cache'[[type |-> "combined", kind |-> "daily"]] =
                   [present |-> TRUE, data |-> r, timestamp |-> clock]
    ]_vars

(* with no source connected, the one request there was, a forced one for   *)
(* the combined summary, got a summary, which is in the cache              *)
C32_Witness ==
  /\ \A s \in Sources : ~connected[s]
  /\ events = MaxDisconnectEvents - 1
  /\ Len(requests) = 1 /\ Len(refreshes) = 1
  /\ requests[1].key.type = "combined"
  /\ refreshes[1].result = RefreshOk(1)
  /\ requests[1].response = FreshResponse(1)
  /\ cache[[type |-> "combined", kind |-> "daily"]].data = 1
  /\ cache[[type |-> "combined", kind |-> "daily"]].present

(* C33: while the summarizer has no client, every call of a summary        *)
(* handler, of ask-question and of get-topic-details is answered in its    *)
(* own step with the error 'Claude API key not configured', whatever the   *)
(* cache holds, and the step calls no provider, launches no sync and       *)
(* changes nothing else; reset-setup empties the store and leaves the      *)
(* summarizer as it is, with or without client.                            *)
C33_ApiKeyGate ==
  [][/\ Asks /\ ~configured =>
          /\ requests'[Len(requests')].response =
               ErrorResponse("Claude API key not configured")
          /\ \A q \in DOMAIN requests : requests'[q] = requests[q]
          /\ <<clock, connected, held, storeVars, syncs, configured, cache,
               refreshes, fanouts, faults, answer, wa, sqlite>>' =
             <<clock, connected, held, storeVars, syncs, configured, cache,
               refreshes, fanouts, faults, answer, wa, sqlite>>
     /\ events' # events /\ ~Asks =>
          /\ cache' = EmptyCache
          /\ configured' = configured
    ]_vars

(* without an API key, a request for a key whose entry is fresh and whose  *)
(* source is connected got the error; no refresh and no sync was started   *)
C33_Witness ==
  /\ ~configured
  /\ Len(requests) = 1
  /\ requests[1].key \in Keys
  /\ requests[1].key.type \in Sources
  /\ connected[requests[1].key.type]
  /\ cache[requests[1].key].present
  /\ ~IsStale(clock - cache[requests[1].key].timestamp)
  /\ ~requests[1].force
  /\ requests[1].response.error = "Claude API key not configured"
  /\ refreshes = <<>> /\ syncs = <<>>

(* ====================================================================== *)
(* Properties of disconnect and reset                                      *)
(* ====================================================================== *)
(* C21: a key that has a cache entry has one in every later state          *)
(* (an entry is replaced, never removed), whichever handler runs.          *)
C21_EntryNeverRemoved ==
  [][\A key \in Keys : cache[key].present => cache'[key].present]_vars

(* C29: while a source is disconnected (its disconnect handler or          *)
(* reset-setup has returned and it has not been authenticated again), no   *)
(* step writes a record, a chat or the watermark of that source.           *)
C29_NoWriteWhileDisconnected ==
  [][\A s \in Sources : ~connected[s] =>
        /\ db'[s] = db[s]
        /\ syncLog'[s] = syncLog[s]
        /\ (s = "whatsapp" => waChatsDb' = waChatsDb)]_vars

(* the steps that end or start a connection of s *)
Disconnects(s) == connected[s] /\ ~connected'[s]

Reconnects(s) == ~connected[s] /\ connected'[s]

(* C30: a disconnect, a reset-setup and a reconnect leave every record and *)
(* every watermark as they were; and a non-full sync of a connected source *)
(* whose stored watermark is inside the 30-day window is incremental from  *)
(* that watermark (from its day, for Gmail), not from the start of the     *)
(* window.                                                                 *)
C30_ReconnectIsIncremental ==
  [][/\ \A s \in Sources :
          Disconnects(s) \/ Reconnects(s) => storeVars' = storeVars
     /\ \A k \in NewSyncs :
          LET s == syncs'[k].src
              last == syncLog[s]
          IN connected[s] /\ ~syncs'[k].full /\ faults = {}
             /\ last.present /\ last.last_sync_at > clock - MONTH =>
               /\ syncs'[k].pc # "done"
               /\ Truthy(syncs'[k].isIncremental)
               /\ syncs'[k].lastSyncTime = JsNum(last.last_sync_at)
               /\ syncs'[k].from = IF s = "gmail"
                                   THEN DayStart(last.last_sync_at)
                                   ELSE last.last_sync_at
               /\ syncs'[k].from >= DayStart(last.last_sync_at)
    ]_vars

(* WhatsApp was disconnected and connected again, and the one sync there   *)
(* has been, a non-full one, runs from the watermark that was stored       *)
(* before the disconnect.                                                  *)
C30_Witness ==
  /\ events = MaxReconnectEvents - 3
  /\ connected["whatsapp"]
  /\ Len(syncs) = 1
  /\ syncs[1].src = "whatsapp" /\ ~syncs[1].full
  /\ syncs[1].pc = "getChats"
  /\ Truthy(syncs[1].isIncremental)
  /\ syncs[1].from = StartClock - 2
  /\ syncLog["whatsapp"].last_sync_at = StartClock - 2

(* C31: a disconnect leaves every cache entry as it was; with the API key  *)
(* set, a request without forceRefresh for a key of a disconnected source   *)
(* that has an entry is answered in its own step with the payload of the   *)
(* entry and no error, tagged stale exactly when the entry is stale; a      *)
(* stale hit starts one background refresh, which ends at the provider's    *)
(* gate with an error that changes neither the cache nor the answer.        *)
C31_DisconnectKeepsEntries ==
  [][/\ \A s \in Sources : Disconnects(s) /\ ~Asks => cache' = cache
     /\ (/\ Asks /\ configured
         /\ ~requests'[Len(requests')].force
         /\ requests'[Len(requests')].key.type \in Sources
         /\ ~connected[requests'[Len(requests')].key.type]
         /\ cache[requests'[Len(requests')].key].present)
        => LET key == requests'[Len(requests')].key
               cached == getCachedSummary(key)
           IN /\ requests'[Len(requests')].response =
                   CachedResponse(cached, cached.isStale)
              /\ cache' = cache
              /\ IF cached.isStale
                 THEN /\ Len(refreshes') = Len(refreshes) + 1
                      /\ refreshes'[Len(refreshes')].mode = "bg"
                      /\ refreshes'[Len(refreshes')].pc = "done"
                      /\ refreshes'[Len(refreshes')].result =
                           RefreshError(GateError(key.type))
                 ELSE refreshes' = refreshes
     /\ \A q \in DOMAIN requests :
          requests[q].response.fromCache => requests'[q] = requests[q]
    ]_vars

(* a source was disconnected, and the request for its key that followed    *)
(* got the stale entry while its background refresh ended at the gate       *)
C31_Witness ==
  /\ events = MaxDisconnectEvents - 2
  /\ Len(requests) = 1
  /\ requests[1].key.type \in Sources
  /\ ~connected[requests[1].key.type]
  /\ requests[1].response.fromCache /\ requests[1].response.isStale
  /\ requests[1].response.summary = 0
  /\ Len(refreshes) = 1
  /\ refreshes[1].result = RefreshError(GateError(requests[1].key.type))
  /\ cache[requests[1].key].present

(* ====================================================================== *)
(* Properties of the sync engine                                           *)
(* ====================================================================== *)
Running(k) == syncs[k].pc # "done"

(* the call k returns in this step *)
Returns(k) == Running(k) /\ syncs'[k].pc = "done"
ReturnsOk(k) == Returns(k) /\ syncs'[k].result.status = "success"
ReturnsError(k) == Returns(k) /\ syncs'[k].result.status = "error"

(* the watermark that call k read lies inside the window of that call *)
InWindow(t) ==
  ~t.full /\ t.lastSyncTime.type = "number" /\ t.lastSyncTime.num > t.monthAgo

(* C5: for every source, every fullSync and every stored watermark, the   *)
(* lower time bound a sync selects records with (syncFromTime, the Gmail  *)
(* 'after:' date, the Notion cutoffTime) is never earlier than the        *)
(* call's now - 30 days.                                                   *)
C5_BoundedWindow ==
  \A k \in 1..Len(syncs) : Running(k) => syncs[k].from >= syncs[k].monthAgo

(* C6: the returned isIncremental flag is true exactly when fullSync is   *)
(* false and the watermark read is later than now - 30 days; the sync then *)
(* starts from the watermark, and otherwise from now - 30 days.           *)
C6_IncrementalFlag ==
  [][\A k \in 1..Len(syncs) :
       ReturnsOk(k) =>
         /\ Truthy(syncs'[k].result.isIncremental) = InWindow(syncs[k])
         /\ syncs[k].from = IF InWindow(syncs[k])
                            THEN syncs[k].lastSyncTime.num
                            ELSE syncs[k].monthAgo]_vars

(* C7: per source, the stored watermark never decreases and never goes    *)
(* away, whatever the interleaving of sync calls.                          *)
C7_WatermarkMonotone ==
  [][\A s \in Sources :
       syncLog[s].present =>
         /\ syncLog'[s].present
         /\ syncLog'[s].last_sync_at >= syncLog[s].last_sync_at]_vars

(* a sync has written the watermark while an older sync of the same       *)
(* source is still running                                                 *)
C7_Witness ==
  \E j, k \in 1..Len(syncs) :
    /\ syncs[j].src = syncs[k].src
    /\ Running(j) /\ ~Running(k) /\ syncs[k].wroteLog
    /\ syncs[j].startedAt < syncLog[syncs[k].src].last_sync_at

C9_SuccessWritesLog ==
  [][\A k \in 1..Len(syncs) :
       ReturnsOk(k) =>
         /\ syncs'[k].wroteLog
         /\ syncLog'[syncs[k].src] =
              [present |-> TRUE, last_sync_at |-> clock,
               records_synced |-> syncs'[k].result.newCount]]_vars

(* a sync stored nothing and its zero count is what sync_log holds, with  *)
(* a watermark later than the start of the model's time                    *)
C9_Witness ==
  \E k \in 1..Len(syncs) :
    /\ syncs[k].result.status = "success"
    /\ syncs[k].result.newCount = 0
    /\ syncLog[syncs[k].src] =
         [present |-> TRUE, last_sync_at |-> clock, records_synced |-> 0]
    /\ clock > StartClock

(* C10: two syncToDatabase(false) calls in succession, both successful,   *)
(* the provider holding nothing but records that are already stored and   *)
(* that are older than the watermark of the first: the second reports     *)
(* isIncremental true, stores no record and does not move the watermark   *)
(* back.                                                                   *)
C10_SecondSyncIdle ==
  [][\A j, k \in 1..Len(syncs) :
       (/\ j < k /\ ReturnsOk(k)
        /\ syncs[j].src = syncs[k].src
        /\ ~syncs[j].full /\ ~syncs[k].full
        /\ syncs[j].pc = "done" /\ syncs[j].result.status = "success"
        /\ InWindow(syncs[k])
        /\ syncs[k].lastSyncTime.num = syncLog[syncs[k].src].last_sync_at
        /\ syncs[k].startedAt = syncs[k].lastSyncTime.num
        /\ \A i \in ItemIds :
             /\ held[syncs[k].src][i] = db[syncs[k].src][i]
             /\ held[syncs[k].src][i] < syncs[k].lastSyncTime.num)
       => /\ Truthy(syncs'[k].result.isIncremental)
          /\ syncs'[k].result.newCount = 0
          /\ db' = db
          /\ syncLog'[syncs[k].src].last_sync_at >= syncs[k].lastSyncTime.num]_vars

(* C20: every record that a step of a syncToDatabase call puts into the    *)
(* tables has a timestamp later than the lower bound the call selects      *)
(* with, and a call that returns reports as new exactly the records it     *)
(* stored.                                                                 *)
C20_OnlyLaterRecordsStored ==
  [][\A k \in DOMAIN syncs :
       Running(k) /\ syncs'[k] # syncs[k] =>
         \A i \in ItemIds :
           db'[syncs[k].src][i] # db[syncs[k].src][i] =>
             db'[syncs[k].src][i] > syncs[k].from
    ]_vars


(* the chats that a WhatsApp sync scans; every mail and every page is      *)
(* within what a Gmail or Notion sync asks for                             *)
Scanned(s, i) ==
  s = "whatsapp" =>
    \E c \in 1..Min(Len(WaChatList), CHAT_SCAN_LIMIT) : WaChatList[c] = ChatOf(i)

(* C23: when a sync returns success, every record that the provider holds *)
(* then, in a scanned container, inside the 30-day window and not later    *)
(* than the watermark the sync has written, is in the Local Store.         *)
C23_WatermarkCoversStore ==
  [][\A k \in DOMAIN syncs : ReturnsOk(k) =>
        LET s == syncs[k].src
        IN \A i \in ItemIds :
             /\ held'[s][i] > clock - MONTH
             /\ held'[s][i] <= syncLog'[s].last_sync_at
             /\ Scanned(s, i)
             => db'[s][i] > 0]_vars


(* chat c of sync k has been fetched in this step *)
Fetched(k, c) ==
  /\ syncs[k].pc = "fetchMessages"
  /\ Head(syncs[k].todo) = c
  /\ \/ ReturnsOk(k)
     \/ syncs'[k].pc = "fetchMessages" /\ syncs'[k].todo = Tail(syncs[k].todo)

(* C24: a sync cycle that scans a chat stores the messages of that chat    *)
(* that are inside the 30-day window, also those that were there while an  *)
(* earlier cycle left the chat out because it lay beyond the first 50      *)
(* chats and advanced the watermark.                                       *)
C24_SkippedChatCaughtUp ==
  [][\A k \in DOMAIN syncs, c \in {"c1", "c2"} : Fetched(k, c) =>
        \A i \in ItemIds :
          ChatOf(i) = c /\ held["whatsapp"][i] > clock - MONTH
          => db'["whatsapp"][i] > 0]_vars

(* what one successful run of call t stores into an empty messages table *)
SingleSync(t) ==
  bulkUpsert([i \in ItemIds |-> 0],
             {i \in ItemIds : held["whatsapp"][i] > t.from}, held["whatsapp"])

(* call k is the first WhatsApp sync to succeed, after a run that failed   *)
(* at a chat behind the first, and it returns in this step                 *)
Retried(k) ==
  /\ ReturnsOk(k)
  /\ \A j \in 1..(k - 1) : syncs[j].result.status = "error"
  /\ \E j \in 1..(k - 1) : syncs[j].fetchError = "item"

InitializingIn(w) == {c \in DOMAIN w.clients : w.clients[c] = "initializing"}

(* initialize() is called in this step, by whatsapp-init or by the         *)
(* auto-reconnect                                                          *)
CallsInitialize == Len(wa'.calls) = Len(wa.calls) + 1

C37_OwnTimeoutOnly ==
  [][\A n \in DOMAIN wa.timers :
       ~wa.timers[n].fired /\ wa'.timers[n].fired =>
         \A c \in InitializingIn(wa) :
           c # wa.timers[n].client =>
             /\ wa'.clients[c] = "initializing"
             /\ wa'.isInitializing = wa.isInitializing]_vars

(* ====================================================================== *)
(* Properties of the two DatabaseService classes                           *)
(* ====================================================================== *)
(* C38: after the same calls, the read calls of the sql.js DatabaseService *)
(* and of the better-sqlite3 one return the same: the rows of every table, *)
(* the counts of getStats and getLastSyncTime of every source.             *)
C38_SameReads ==
  ReadCalls(rows, syncLog) = ReadCalls(sqlite.rows, sqlite.sync_log)

====
